---- MODULE Spec2Model ----
(***************************************************************************)
(* Model of the sysrepo module registry (src/lyd_mods.c): the persisted    *)
(* "sysrepo-modules" tree, the Schedule Manager operations that add and    *)
(* remove pending markers and staged-install entries, and the apply of the *)
(* scheduled changes (sr_lydmods_sched_apply).                             *)
(*                                                                         *)
(* The registry is a libyang data tree.  It is modelled as a sequence of   *)
(* top-level entries ("module" and "installed-module" list instances),     *)
(* each with its key (name) and the sequence of its other children in      *)
(* sibling order, because the code iterates over siblings and stops at the *)
(* first marker it meets.                                                  *)
(***************************************************************************)
EXTENDS Integers, Sequences, FiniteSets, TLC

(***************************************************************************)
(* Bounds of the model.                                                    *)
(***************************************************************************)
\* most scheduled changes (markers and staged entries) the registry holds
\* at a time
MaxSched == 2

(***************************************************************************)
(* The YANG modules the callers can hand in (the schema engine's world).   *)
(* A module text is named by <<name, version>>.                            *)
(*   A v1: imports B and augments it, which makes B implemented.           *)
(*   A v2: imports B without augmenting it.                                *)
(*   A, both versions: leaf p, an RPC and, with feature f1 enabled, a      *)
(*         notification whose expressions refer to B (see the schema nodes *)
(*         below).                                                         *)
(*   A v1: with feature f1 enabled p is mandatory.                         *)
(*   A v2: the type of p is another one: stored values do not parse.       *)
(*   B v1: no imports, no features; a container with an action, no leaves. *)
(***************************************************************************)
Mods == {"A", "B"}
NoVer == ""

HasVer(m, v) == \/ v = "v1"
                \/ v = "v2" /\ m = "A"

\* ly_mod->parsed->imports, in array order
Imports(m, v) == IF m = "A" THEN <<"B">> ELSE <<>>

\* the imports the module makes implemented (imports[u].module->implemented)
ImplImports(m, v) == IF m = "A" /\ v = "v1" THEN {"B"} ELSE {}

\* ly_mod->compiled->features
Features(m, v) == IF m = "A" THEN {"f1"} ELSE {}

(***************************************************************************)
(* The compiled schema nodes (struct lysc_node) of the library, named by   *)
(* their data path.                                                        *)
(*   /A:p        leaf of A                                                 *)
(*   /A:r        RPC of A with the input leaf /A:r/i                       *)
(*   /A:n        notification of A, if-feature f1, with a must on /B:c     *)
(*   /A:n/x      leaf of the notification, its type a union of a leafref   *)
(*               into /B:c and of two instance-identifiers; a when on /B:c *)
(*               and on the leaf itself, and a must on /B:c                *)
(*   /B:c        container of B                                            *)
(*   /B:c/A:q    leaf that A v1 augments into /B:c                         *)
(*   /B:c/act    action of B with the input leaf /B:c/act/y                *)
(***************************************************************************)
SNodes == {"/A:p", "/A:r", "/A:r/i", "/A:n", "/A:n/x",
           "/B:c", "/B:c/A:q", "/B:c/act", "/B:c/act/y"}
Null == ""

\* node->parent
Parent(n) == CASE n = "/A:r/i" -> "/A:r"
               [] n = "/A:n/x" -> "/A:n"
               [] n \in {"/B:c/A:q", "/B:c/act"} -> "/B:c"
               [] n = "/B:c/act/y" -> "/B:c/act"
               [] OTHER -> Null
\* node->module
ModuleOf(n) == IF n \in {"/B:c", "/B:c/act", "/B:c/act/y"} THEN "B" ELSE "A"
\* node->nodetype
NodeType(n) == CASE n = "/A:r" -> "rpc"
                 [] n = "/A:n" -> "notif"
                 [] n = "/B:c/act" -> "action"
                 [] n = "/B:c" -> "container"
                 [] OTHER -> "leaf"
Ops == {"rpc", "action", "notif"}
\* the children the schema traversal descends into
Children(n) == CASE n = "/A:r" -> <<"/A:r/i">>
                 [] n = "/A:n" -> <<"/A:n/x">>
                 [] n = "/B:c" -> <<"/B:c/A:q", "/B:c/act">>
                 [] n = "/B:c/act" -> <<"/B:c/act/y">>
                 [] OTHER -> <<>>
\* lysc_node_is_disabled(elem, 0) with the features F enabled
Disabled(n, F) == n = "/A:n" /\ "f1" \notin F
\* ly_mod->compiled->data, ->rpcs and ->notifs, in this order
Roots(m) == IF m = "A" THEN <<"/A:p", "/A:r", "/A:n">> ELSE <<"/B:c">>
\* the types of a leaf, the members of a union in order: the base type and
\* the atoms of the leafref path or of the instance-identifier default
Types(n) == IF n = "/A:n/x"
            THEN <<[base |-> "leafref", atoms |-> <<"/B:c">>],
                   [base |-> "inst", atoms |-> <<>>],
                   [base |-> "inst", atoms |-> <<>>]>>
            ELSE <<>>
\* the atoms of the when and then of the must expressions of a node
Conds(n) == CASE n = "/A:n" -> << <<"/B:c">> >>
              [] n = "/A:n/x" -> << <<"/B:c", "/A:n/x">>, <<"/B:c">> >>
              [] OTHER -> <<>>

\* data nodes the module defines
Known(m, v) == IF m = "A" THEN {"p"} ELSE {}
\* leaves of the module whose stored (v1) values the version cannot parse
Unparsable(m, v) == IF m = "A" /\ v = "v2" THEN {"p"} ELSE {}
\* leaves validation requires
Mandatory(m, v, F) == IF m = "A" /\ v = "v1" /\ "f1" \in F THEN {"p"} ELSE {}

(***************************************************************************)
(* Sequence helpers.                                                       *)
(***************************************************************************)
Range(s) == {s[i] : i \in 1..Len(s)}

RemoveAt(s, i) == SubSeq(s, 1, i - 1) \o SubSeq(s, i + 1, Len(s))

InsertAt(s, i, x) == SubSeq(s, 1, i - 1) \o <<x>> \o SubSeq(s, i, Len(s))

FirstIdx(S) == CHOOSE i \in S : \A j \in S : i <= j

\* a set of strings as the sequence the caller passes, in a fixed order
RECURSIVE SetToSeq(_)
SetToSeq(S) ==
    IF S = {} THEN <<>>
    ELSE LET x == CHOOSE y \in S : TRUE IN <<x>> \o SetToSeq(S \ {x})

(***************************************************************************)
(* The registry tree.  A child node is [t, v, w, d, e]: its schema name t, *)
(* its value v (the key for a list child), a second value w (the "change"  *)
(* leaf of changed-feature), and d, e: the dependency lists of data-deps   *)
(* (d) and of op-deps (d: in, e: out).  A dependency is [k, m, p]: kind    *)
(* "module" with module m, or kind "inst-id" with path p and the           *)
(* default-module m ("" if none).                                          *)
(***************************************************************************)
Node(t, v, w) == [t |-> t, v |-> v, w |-> w, d |-> <<>>, e |-> <<>>]
Dep(k, m, p) == [k |-> k, m |-> m, p |-> p]
Entry(k, name, ch) == [k |-> k, name |-> name, ch |-> ch]

\* order of the children in the schema of the registry (sysrepo.yang)
Rank(t) ==
    CASE t = "revision" -> 1
      [] t = "enabled-feature" -> 2
      [] t = "module-yang" -> 3
      [] t = "data" -> 4
      [] t = "data-deps" -> 5
      [] t = "op-deps" -> 6
      [] t = "inverse-data-deps" -> 7
      [] t = "replay-support" -> 8
      [] t = "removed" -> 9
      [] t = "updated-yang" -> 10
      [] t = "changed-feature" -> 11
      [] t = "module" -> 1
      [] t = "installed-module" -> 2
      [] t = "inst-id" -> 2

\* lyd_insert_node: where a new sibling goes.  A libyang that keeps siblings
\* in schema order (sorted) puts it before the first sibling of a later
\* schema node; one that does not appends it.
InsertPos(tags, t, sorted) ==
    LET later == {i \in 1..Len(tags) : Rank(tags[i]) > Rank(t)}
    IN IF sorted /\ later # {} THEN FirstIdx(later) ELSE Len(tags) + 1

\* lyd_new_term / lyd_new_inner / lyd_new_path under a list instance
InsertChild(ch, node, sorted) ==
    InsertAt(ch, InsertPos([i \in 1..Len(ch) |-> ch[i].t], node.t, sorted), node)

\* variant: the new entry replaces the entries of the registry
InsertEntryAlone(reg, entry, sorted) == <<entry>>

\* lyd_new_list / lyd_new_path under the registry root
InsertEntry(reg, entry, sorted) ==
    InsertAt(reg, InsertPos([i \in 1..Len(reg) |-> reg[i].k], entry.k, sorted), entry)

\* lyd_find_xpath(sr_mods, "<k>[name='<name>']"): the matching instances
FindEntry(reg, k, name) == {i \in 1..Len(reg) : reg[i].k = k /\ reg[i].name = name}

\* the children of an entry with schema name t, as indices
ChildIdx(e, t) == {i \in 1..Len(e.ch) : e.ch[i].t = t}
HasChild(e, t) == ChildIdx(e, t) # {}
ChildVals(e, t) == {e.ch[i].v : i \in ChildIdx(e, t)}
\* the values of the children named t, in sibling order
ChildSeq(e, t) == [j \in 1..Len(SelectSeq(e.ch, LAMBDA n : n.t = t)) |->
                      SelectSeq(e.ch, LAMBDA n : n.t = t)[j].v]

\* the revision leaf of a record, "" (NULL) when there is none
RevisionOf(e) == IF HasChild(e, "revision") THEN e.ch[FirstIdx(ChildIdx(e, "revision"))].v
                 ELSE NoVer

\* lyd_free_tree of every child named t with value v
DropChild(e, t, v) == [e EXCEPT !.ch = SelectSeq(e.ch, LAMBDA n : ~(n.t = t /\ n.v = v))]

StagedNames(reg) == {reg[i].name : i \in {j \in 1..Len(reg) : reg[j].k = "installed-module"}}
IsMarker(t) == t \in {"removed", "updated-yang", "changed-feature"}
HasMarker(e) == \E i \in 1..Len(e.ch) : IsMarker(e.ch[i].t)

\* the scheduled changes of a tree: its staged entries and its markers
RECURSIVE Pending(_)
Pending(reg) ==
    IF reg = <<>> THEN 0
    ELSE Pending(Tail(reg))
         + (IF Head(reg).k = "installed-module" THEN 1
            ELSE Cardinality({i \in 1..Len(Head(reg).ch) : IsMarker(Head(reg).ch[i].t)}))

(***************************************************************************)
(* State.                                                                  *)
(***************************************************************************)
VARIABLES
    persisted,  \* the registry file: [ok, tree]; ok = FALSE: not parsable
    startup,    \* per module: the startup data file, [ex, leaves]
    running,    \* per module: the running data file, [ex, leaves]
    sr_mods,    \* the tree a caller of sched_apply holds: [held, tree]
    last,       \* the call whose tree is held: [op, mod, ret, change, fail, phase]
    ly_sorted,  \* whether libyang keeps siblings in schema order
    expr,       \* an expression atom under classification:
                \* [pc, ctx_node, atom, top_node, dep_mod]
    callers,    \* the Schedule Manager calls of callers that take no lock:
                \* [of: per caller [pc, op, mod, tree, ret], stored]
    walk,       \* the traversal of an operation with must expressions:
                \* [pc, op, input, output, in, out]
    daemon,     \* the plugin daemon: the position of main, its plugins, the
                \* lock, the flag loop_finish and the running signal handler
    commit      \* the commit phase of an apply and its two recursions, step
                \* by step: [pc, st, cur, fresh, handled, remarked, graph,
                \* impl, recs, stack, calls]

vars == <<persisted, startup, running, sr_mods, last, ly_sorted, expr, callers, walk, daemon, commit>>

\* A call returns SR_ERR_OK ("OK"), SR_ERR_EXISTS ("EXISTS"),
\* SR_ERR_NOT_FOUND ("NOT_FOUND") or any other error value ("ERR"); a failed
\* assert ("ABORT") ends the process.
NoFile == [ex |-> FALSE, leaves |-> {}]
File(L) == [ex |-> TRUE, leaves |-> L]

Result(ret, tree) == [ret |-> ret, tree |-> tree]
Call(op, mod, ret) == [op |-> op, mod |-> mod, ret |-> ret, change |-> 0, fail |-> 0,
                       phase |-> <<>>]

(***************************************************************************)
(* Load and store of the registry.                                         *)
(***************************************************************************)
\* lyd_validate_module on the registry: list keys and leaf-list values are
\* unique, a leaf or container occurs once
Unique(ch, t) == \A i, j \in 1..Len(ch) :
                    (ch[i].t = t /\ ch[j].t = t /\ ch[i].v = ch[j].v) => i = j
Single(ch, t) == Cardinality({i \in 1..Len(ch) : ch[i].t = t}) <= 1

ValidTree(tree) ==
    /\ \A i, j \in 1..Len(tree) :
          (tree[i].k = tree[j].k /\ tree[i].name = tree[j].name) => i = j
    /\ \A i \in 1..Len(tree) :
          /\ \A t \in {"enabled-feature", "inverse-data-deps", "changed-feature", "op-deps"} :
                Unique(tree[i].ch, t)
          /\ \A t \in {"revision", "module-yang", "data", "data-deps", "replay-support",
                        "removed", "updated-yang"} : Single(tree[i].ch, t)

\* sr_lydmods_print: validate, then write the file in place.  io is what
\* the file system does: "ok"; "open": the file cannot be opened, nothing
\* is written; "write": the write fails after the file was truncated.
IOs == {"ok", "open", "write"}

sr_lydmods_print(tree, io) ==
    IF ~ValidTree(tree) THEN [ret |-> "ERR", file |-> persisted]
    ELSE IF io = "ok" THEN [ret |-> "OK", file |-> [ok |-> TRUE, tree |-> tree]]
    ELSE IF io = "open" THEN [ret |-> "ERR", file |-> persisted]
    ELSE [ret |-> "ERR", file |-> [ok |-> FALSE, tree |-> <<>>]]

\* sr_lydmods_parse: the stored tree, or an error when it does not parse
sr_lydmods_parse == IF persisted.ok THEN Result("OK", persisted.tree)
                    ELSE Result("ERR", <<>>)

\* a module of the connection's context: it has a record with a revision
Installed(tree, m) ==
    \E i \in FindEntry(tree, "module", m) : HasChild(tree[i], "revision")
InstalledVer(tree, m) == RevisionOf(tree[FirstIdx(FindEntry(tree, "module", m))])

(***************************************************************************)
(* Schedule Manager: each operation as a function of the parsed tree that  *)
(* returns the error kind and the tree to store.                           *)
(***************************************************************************)
RECURSIVE AddChildren(_, _, _)
AddChildren(ch, nodes, sorted) ==
    IF nodes = <<>> THEN ch
    ELSE AddChildren(InsertChild(ch, Head(nodes), sorted), Tail(nodes), sorted)

\* lyd_new_path(sr_mods, NULL, "module[name='m']/<node>", ...): the list
\* instance is created when it is missing
NewPath(tree, m, node, sorted) ==
    IF FindEntry(tree, "module", m) = {}
    THEN InsertEntry(tree, Entry("module", m, <<node>>), sorted)
    ELSE LET i == FirstIdx(FindEntry(tree, "module", m))
         IN [tree EXCEPT ![i].ch = InsertChild(tree[i].ch, node, sorted)]

\* the module records that have a child named t (xpath "module[name='m']/t")
WithChild(tree, m, t) == {i \in FindEntry(tree, "module", m) : HasChild(tree[i], t)}

sr_lydmods_deferred_add_module(tree, m, v, feats, sorted) ==
    IF Cardinality(FindEntry(tree, "installed-module", m)) = 1
    THEN Result("EXISTS", tree)
    ELSE LET nodes == <<Node("revision", v, "")>>
                      \o [i \in 1..Len(feats) |-> Node("enabled-feature", feats[i], "")]
                      \o <<Node("module-yang", v, "")>>
         IN Result("OK", InsertEntry(tree,
                Entry("installed-module", m, AddChildren(<<>>, nodes, sorted)), sorted))

sr_lydmods_unsched_add_module(tree, m) ==
    IF FindEntry(tree, "installed-module", m) = {}
    THEN Result("NOT_FOUND", tree)
    ELSE Result("OK", RemoveAt(tree, FirstIdx(FindEntry(tree, "installed-module", m))))

sr_lydmods_deferred_add_module_data(tree, m, data, sorted) ==
    IF FindEntry(tree, "installed-module", m) = {}
    THEN Result("EXISTS", tree)
    ELSE LET i == FirstIdx(FindEntry(tree, "installed-module", m))
             old == ChildIdx(tree[i], "data")
             ch == IF old = {} THEN tree[i].ch ELSE RemoveAt(tree[i].ch, FirstIdx(old))
         IN Result("OK", [tree EXCEPT ![i].ch = InsertChild(ch, Node("data", data, ""), sorted)])

sr_lydmods_deferred_del_module(tree, m, sorted) ==
    IF Cardinality(WithChild(tree, m, "removed")) = 1
    THEN Result("EXISTS", tree)
    ELSE Result("OK", NewPath(tree, m, Node("removed", "", ""), sorted))

\* imports of ly_mod that are implemented in the connection's context
LiveImplImports(tree, m) ==
    IF Installed(tree, m)
    THEN SelectSeq(Imports(m, InstalledVer(tree, m)), LAMBDA i : Installed(tree, i))
    ELSE <<>>

RECURSIVE sr_lydmods_unsched_del_module_r(_, _, _)
RECURSIVE UnschedDelImports(_, _)
UnschedDelImports(tree, imps) ==
    IF imps = <<>> THEN Result("OK", tree)
    ELSE LET r == sr_lydmods_unsched_del_module_r(tree, Head(imps), 0)
         IN IF r.ret # "OK" THEN r ELSE UnschedDelImports(r.tree, Tail(imps))

\* variant: a module of the chain that is not marked is an error as well
UnschedDelStrict(tree, m, first) ==
    LET set == WithChild(tree, m, "removed")
    IN IF set = {} THEN Result("NOT_FOUND", tree)
       ELSE UnschedDelImports([tree EXCEPT ![FirstIdx(set)] = DropChild(@, "removed", "")],
                              LiveImplImports(tree, m))

sr_lydmods_unsched_del_module_r(tree, m, first) ==
    LET set == WithChild(tree, m, "removed")
    IN IF set = {} /\ first = 1 THEN Result("NOT_FOUND", tree)
       ELSE LET t1 == IF set = {} THEN tree
                      ELSE [tree EXCEPT ![FirstIdx(set)] = DropChild(@, "removed", "")]
            IN UnschedDelImports(t1, LiveImplImports(tree, m))

sr_lydmods_unsched_del_module_with_imps(tree, m) ==
    sr_lydmods_unsched_del_module_r(tree, m, 1)

sr_lydmods_deferred_upd_module(tree, m, v, sorted) ==
    IF Cardinality(WithChild(tree, m, "updated-yang")) = 1
    THEN Result("EXISTS", tree)
    ELSE Result("OK", NewPath(tree, m, Node("updated-yang", v, ""), sorted))

\* variant: unscheduling an update that is not scheduled succeeds
UnschedUpdAlways(tree, m) == Result("OK", tree)

sr_lydmods_unsched_upd_module(tree, m) ==
    LET set == WithChild(tree, m, "updated-yang")
    IN IF set = {} THEN Result("NOT_FOUND", tree)
       ELSE LET i == FirstIdx(set)
                k == FirstIdx(ChildIdx(tree[i], "updated-yang"))
            IN Result("OK", [tree EXCEPT ![i].ch = RemoveAt(@, k)])

\* the changed-feature instances of feature f in the records of m, as
\* <<record index, child index>>
ChangedFeature(tree, m, f) ==
    UNION {{<<i, k>> : k \in {j \in ChildIdx(tree[i], "changed-feature") : tree[i].ch[j].v = f}} :
           i \in FindEntry(tree, "module", m)}

\* variant: only the current state of the feature decides, a change that
\* is already scheduled is not looked for
ChangeFeatureByState(tree, m, f, to_enable, is_enabled, sorted) ==
    IF to_enable = is_enabled THEN Result("EXISTS", tree)
    ELSE Result("OK", NewPath(tree, m,
            Node("changed-feature", f, IF to_enable = 1 THEN "enable" ELSE "disable"),
            sorted))

\* variant: the opposite request turns the scheduled change around and
\* keeps the marker
ChangeFeatureTurned(tree, m, f, to_enable, is_enabled, sorted) ==
    LET set == ChangedFeature(tree, m, f)
        want == IF to_enable = 1 THEN "enable" ELSE "disable"
    IN IF Cardinality(set) = 1
       THEN LET ik == CHOOSE x \in set : TRUE
            IN IF tree[ik[1]].ch[ik[2]].w = want THEN Result("EXISTS", tree)
               ELSE Result("OK", [tree EXCEPT ![ik[1]].ch[ik[2]].w = want])
       ELSE IF to_enable = is_enabled THEN Result("EXISTS", tree)
            ELSE Result("OK", NewPath(tree, m, Node("changed-feature", f, want), sorted))

sr_lydmods_deferred_change_feature(tree, m, f, to_enable, is_enabled, sorted) ==
    LET set == ChangedFeature(tree, m, f)
    IN IF Cardinality(set) = 1
       THEN LET ik == CHOOSE x \in set : TRUE
                node == tree[ik[1]].ch[ik[2]]
            IN IF (to_enable = 1 /\ node.w = "enable") \/ (to_enable = 0 /\ node.w = "disable")
               THEN Result("EXISTS", tree)
               ELSE Result("OK", [tree EXCEPT ![ik[1]].ch = RemoveAt(@, ik[2])])
       ELSE IF (to_enable = 1 /\ is_enabled = 1) \/ (to_enable = 0 /\ is_enabled = 0)
            THEN Result("EXISTS", tree)
            ELSE Result("OK", NewPath(tree, m,
                    Node("changed-feature", f, IF to_enable = 1 THEN "enable" ELSE "disable"),
                    sorted))

(***************************************************************************)
(* The schema engine: a context (schema universe) maps each module name to *)
(* the version loaded ("" when not loaded), whether it is implemented and  *)
(* its enabled features.                                                   *)
(***************************************************************************)
NoMod == [ver |-> NoVer, impl |-> FALSE, feats |-> {}]
EmptyCtx == [m \in Mods |-> NoMod]
CtxRes(ok, ctx) == [ok |-> ok, ctx |-> ctx]

\* the newest stored file of a module: the revision of its record, else v1
SearchVer(tree, m) == IF Installed(tree, m) THEN InstalledVer(tree, m) ELSE "v1"

\* the imports of <<m, v>> as <<name, whether m makes it implemented>>
ImportList(m, v) ==
    [j \in 1..Len(Imports(m, v)) |-> <<Imports(m, v)[j], Imports(m, v)[j] \in ImplImports(m, v)>>]

SetImplemented(ctx, i, impl) == IF impl THEN [ctx EXCEPT ![i].impl = TRUE] ELSE ctx

\* loading the imports of a module: an import not in the context is loaded
\* from the search directory as imported only; an import the module
\* augments is made implemented
RECURSIVE CtxImports(_, _, _)
RECURSIVE CtxImport(_, _, _, _)
CtxImport(ctx, tree, i, v) ==
    IF ctx[i].ver # NoVer THEN ctx
    ELSE CtxImports([ctx EXCEPT ![i] = [ver |-> v, impl |-> FALSE, feats |-> {}]],
                    tree, ImportList(i, v))

CtxImports(ctx, tree, imps) ==
    IF imps = <<>> THEN ctx
    ELSE CtxImports(SetImplemented(CtxImport(ctx, tree, Head(imps)[1],
                                             SearchVer(tree, Head(imps)[1])),
                                   Head(imps)[1], Head(imps)[2]),
                    tree, Tail(imps))

\* lys_parse_mem / ly_ctx_load_module of <<m, v>> as an implemented module:
\* it fails when another revision of m is implemented already
CtxParse(ctx, tree, m, v) ==
    IF ~HasVer(m, v) \/ (ctx[m].ver \notin {NoVer, v} /\ ctx[m].impl)
    THEN CtxRes(FALSE, ctx)
    ELSE CtxRes(TRUE, CtxImports([ctx EXCEPT ![m] = [ver |-> v, impl |-> TRUE,
                                                     feats |-> IF @.ver = v THEN @.feats ELSE {}]],
                                 tree, ImportList(m, v)))

\* lys_feature_enable_force for each name of a list; it fails on a name
\* that is no feature of the module
CtxEnable(ctx, m, fs) ==
    IF \E i \in 1..Len(fs) : fs[i] \notin Features(m, ctx[m].ver)
    THEN CtxRes(FALSE, ctx)
    ELSE CtxRes(TRUE, [ctx EXCEPT ![m].feats = @ \cup Range(fs)])

\* ly_ctx_get_module(ctx, name, revision)
CtxHas(ctx, m, rev) == ctx[m].ver # NoVer /\ ctx[m].ver = rev
\* ly_ctx_get_module_implemented(ctx, name)
CtxImplemented(ctx, m) == ctx[m].ver # NoVer /\ ctx[m].impl

(***************************************************************************)
(* Dependency Engine, collection: the modules an expression depends on.    *)
(***************************************************************************)
\* sr_lydmods_moddep_expr_get_dep_mods: the top node of the context node
RECURSIVE TopNode(_)
TopNode(n) ==
    IF NodeType(n) \notin {"action", "notif"} /\ Parent(n) # Null THEN TopNode(Parent(n))
    ELSE n

\* the loop of sr_lydmods_moddep_expr_atom_is_foreign
RECURSIVE Climb(_, _)
Climb(atom, top_node) ==
    IF Parent(atom) # Null /\ atom # top_node THEN Climb(Parent(atom), top_node)
    ELSE atom

\* the foreign dependency module, Null when the atom is not foreign, and
\* "ABORT" when the assertion on top_node fails
sr_lydmods_moddep_expr_atom_is_foreign(atom, top_node) ==
    IF ~(Parent(top_node) # Null \/ NodeType(top_node) \in Ops) THEN "ABORT"
    ELSE IF Climb(atom, top_node) = top_node THEN Null
    ELSE IF NodeType(top_node) \in Ops THEN ModuleOf(Climb(atom, top_node))
    ELSE IF ModuleOf(Climb(atom, top_node)) # ModuleOf(top_node)
         THEN ModuleOf(Climb(atom, top_node))
    ELSE Null

\* the loop over the atoms: a foreign module is added once
RECURSIVE AtomLoop(_, _, _)
AtomLoop(top_node, atoms, dep_mods) ==
    IF atoms = <<>> THEN dep_mods
    ELSE LET dep_mod == sr_lydmods_moddep_expr_atom_is_foreign(Head(atoms), top_node)
         IN AtomLoop(top_node, Tail(atoms),
                     IF dep_mod \in {Null, "ABORT"} \/ dep_mod \in Range(dep_mods) THEN dep_mods
                     ELSE Append(dep_mods, dep_mod))

sr_lydmods_moddep_expr_get_dep_mods(ctx_node, atoms, dep_mods) ==
    AtomLoop(TopNode(ctx_node), atoms, dep_mods)

\* the when and must expressions of a node, collected into one array
RECURSIVE CondLoop(_, _, _)
CondLoop(elem, conds, dep_mods) ==
    IF conds = <<>> THEN dep_mods
    ELSE CondLoop(elem, Tail(conds),
                  sr_lydmods_moddep_expr_get_dep_mods(elem, Head(conds), dep_mods))

\* LYSC_TREE_DFS over the nodes of todo and the subtrees of the enabled ones
RECURSIVE Dfs(_, _)
Dfs(todo, F) ==
    IF todo = <<>> THEN <<>>
    ELSE IF Disabled(Head(todo), F) THEN Dfs(Tail(todo), F)
    ELSE <<Head(todo)>> \o Dfs(Children(Head(todo)) \o Tail(todo), F)

\* the assertions of the collection hold for the enabled nodes of m: the
\* one on the top node of every expression, and that a leafref or an
\* instance-identifier default names one foreign module at most
Asserted(m, F) ==
    \A n \in Range(Dfs(Roots(m), F)) :
        /\ \A a \in UNION ({Range(t.atoms) : t \in Range(Types(n))}
                              \cup {Range(c) : c \in Range(Conds(n))}) :
               sr_lydmods_moddep_expr_atom_is_foreign(a, TopNode(n)) # "ABORT"
        /\ \A t \in Range(Types(n)) :
               Len(sr_lydmods_moddep_expr_get_dep_mods(n, t.atoms, <<>>)) < 2

\* sr_lydmods_moddep_check_type over the types of a node: only the
\* instance-identifier defaults count
RECURSIVE sr_lydmods_moddep_check_type(_, _, _)
sr_lydmods_moddep_check_type(types, node, dep_mods) ==
    IF types = <<>> THEN dep_mods
    ELSE sr_lydmods_moddep_check_type(Tail(types), node,
             IF Head(types).base = "inst"
             THEN sr_lydmods_moddep_expr_get_dep_mods(node, Head(types).atoms, dep_mods)
             ELSE dep_mods)

\* sr_lydmods_check_deps_r over the nodes elems
RECURSIVE sr_lydmods_check_deps_r(_, _)
sr_lydmods_check_deps_r(elems, dep_mods) ==
    IF elems = <<>> THEN dep_mods
    ELSE sr_lydmods_check_deps_r(Tail(elems),
             CondLoop(Head(elems), Conds(Head(elems)),
                      sr_lydmods_moddep_check_type(Types(Head(elems)), Head(elems), dep_mods)))

(***************************************************************************)
(* Apply Engine, step 1: the candidate context.  The running state of one  *)
(* sr_lydmods_sched_apply call is a record st: ret (the error value),      *)
(* change, fail, ctx (new_ctx), tree (sr_mods), the data files and the log *)
(* of the phases entered.                                                  *)
(***************************************************************************)
Stop(st) == st.ret # "OK" \/ st.fail = 1
Enter(st, ph) == [st EXCEPT !.phase = Append(@, ph)]

\* the foreign modules the when/must expressions and instance-identifier
\* defaults of the enabled nodes of m refer to
CheckDepMods(ctx, m) ==
    Range(sr_lydmods_check_deps_r(Dfs(Roots(m), ctx[m].feats), <<>>))

\* variant: every dependency counts as resolved
CheckAllDepsNever(ctx, tree, m) == FALSE

\* sr_lydmods_check_all_deps: TRUE when some dependency is neither
\* implemented in the context nor staged for installation
sr_lydmods_check_all_deps(ctx, tree, m) ==
    \E d \in CheckDepMods(ctx, m) :
        ~ctx[d].impl /\ FindEntry(tree, "installed-module", d) = {}

\* the features of the entry are enabled and the dependencies checked
Enabled(st, e, f) ==
    IF ~f.ok THEN [st EXCEPT !.ret = "ERR"]
    ELSE IF ~Asserted(e.name, f.ctx[e.name].feats) THEN [st EXCEPT !.ret = "ABORT"]
    ELSE IF sr_lydmods_check_all_deps(f.ctx, st.tree, e.name)
         THEN [st EXCEPT !.ctx = f.ctx, !.fail = 1]
         ELSE [st EXCEPT !.ctx = f.ctx, !.change = 1]

\* a module text parsed into new_ctx as p; perr is what a parse failure
\* yields
Loaded(st, e, p, perr) ==
    IF ~p.ok THEN perr
    ELSE Enabled(st, e, CtxEnable(p.ctx, e.name, ChildSeq(e, "enabled-feature")))

LoadEntry(st, e, v, perr) == Loaded(st, e, CtxParse(st.ctx, st.tree, e.name, v), perr)

RECURSIVE UpdateLoop(_, _)
UpdateLoop(st, es) ==
    IF es = <<>> \/ Stop(st) THEN st
    ELSE UpdateLoop(LoadEntry(st, Head(es),
                              Head(es).ch[FirstIdx(ChildIdx(Head(es), "updated-yang"))].v,
                              [st EXCEPT !.ret = "ERR"]),
                    Tail(es))

sr_lydmods_sched_ctx_update_modules(st) ==
    UpdateLoop(st, SelectSeq(st.tree, LAMBDA e : e.k = "module" /\ HasChild(e, "updated-yang")))

\* sr_lydmods_ctx_load_module: load the stored module of a record
EnableOf(p, e) ==
    IF ~p.ok THEN p ELSE CtxEnable(p.ctx, e.name, ChildSeq(e, "enabled-feature"))

sr_lydmods_ctx_load_module(ctx, tree, e) ==
    EnableOf(IF CtxHas(ctx, e.name, RevisionOf(e)) /\ ctx[e.name].impl THEN CtxRes(TRUE, ctx)
             ELSE CtxParse(ctx, tree, e.name,
                           IF RevisionOf(e) = NoVer THEN SearchVer(tree, e.name)
                           ELSE RevisionOf(e)),
             e)

\* sr_lydmods_ctx_load_modules(sr_mods, ctx, removed, updated, change), as
\* [ok, ctx, change]
LoadOne(acc, p) == [acc EXCEPT !.ok = p.ok, !.ctx = p.ctx]

RECURSIVE LoadLoop(_, _, _, _, _)
LoadLoop(acc, tree, es, removed, updated) ==
    IF es = <<>> \/ ~acc.ok THEN acc
    ELSE IF Head(es).k = "installed-module"
         THEN LoadLoop(acc, tree, Tail(es), removed, updated)
    ELSE IF (removed = 0 /\ HasChild(Head(es), "removed"))
            \/ (updated = 0 /\ HasChild(Head(es), "updated-yang"))
         THEN LoadLoop([acc EXCEPT !.change = 1], tree, Tail(es), removed, updated)
    ELSE LoadLoop(LoadOne(acc, sr_lydmods_ctx_load_module(acc.ctx, tree, Head(es))),
                  tree, Tail(es), removed, updated)

sr_lydmods_ctx_load_modules(tree, ctx, removed, updated) ==
    LoadLoop([ok |-> TRUE, ctx |-> ctx, change |-> 0], tree, tree, removed, updated)

\* variant: every load of the stored modules counts as a change
RemainingChanged(st, r) ==
    [st EXCEPT !.ret = IF r.ok THEN "OK" ELSE "ERR", !.ctx = r.ctx, !.change = 1]

Remaining(st, r) ==
    [st EXCEPT !.ret = IF r.ok THEN "OK" ELSE "ERR", !.ctx = r.ctx,
               !.change = IF r.change = 1 THEN 1 ELSE @]

LoadRemaining(st) == Remaining(st, sr_lydmods_ctx_load_modules(st.tree, st.ctx, 0, 0))

\* lys_feature_enable_force / lys_feature_disable_force for the
\* changed-feature children of a record, in order
RECURSIVE CtxChange(_, _, _)
CtxChange(c, m, nodes) ==
    IF nodes = <<>> \/ ~c.ok THEN c
    ELSE LET n == Head(nodes)
         IN IF n.v \notin Features(m, c.ctx[m].ver) THEN CtxRes(FALSE, c.ctx)
            ELSE CtxChange(CtxRes(TRUE, [c.ctx EXCEPT ![m].feats =
                               IF n.w = "enable" THEN @ \cup {n.v} ELSE @ \ {n.v}]),
                           m, Tail(nodes))

\* implemented modules of the context that import m
Importers(ctx, m) ==
    {i \in Mods \ {m} : CtxImplemented(ctx, i) /\ m \in Range(Imports(i, ctx[i].ver))}

\* the record e of an implemented module with its changes applied as c
RECURSIVE FeatureLoop(_, _)
Featured(st, e, c, rest) ==
    IF ~c.ok THEN [st EXCEPT !.ret = "ERR"]
    ELSE IF \E i \in {e.name} \cup Importers(c.ctx, e.name) : ~Asserted(i, c.ctx[i].feats)
         THEN [st EXCEPT !.ret = "ABORT"]
    ELSE IF \/ sr_lydmods_check_all_deps(c.ctx, st.tree, e.name)
            \/ \E i \in Importers(c.ctx, e.name) : sr_lydmods_check_all_deps(c.ctx, st.tree, i)
         THEN [st EXCEPT !.ctx = c.ctx, !.fail = 1]
         ELSE FeatureLoop([st EXCEPT !.ctx = c.ctx, !.change = 1], rest)

FeatureLoop(st, es) ==
    IF es = <<>> \/ Stop(st) THEN st
    ELSE IF ~CtxImplemented(st.ctx, Head(es).name)
         THEN IF HasChild(Head(es), "removed") THEN FeatureLoop(st, Tail(es))
              ELSE [st EXCEPT !.ret = "ABORT"]
    ELSE Featured(st, Head(es),
                  CtxChange(CtxRes(TRUE, st.ctx), Head(es).name,
                            SelectSeq(Head(es).ch, LAMBDA n : n.t = "changed-feature")),
                  Tail(es))

sr_lydmods_sched_ctx_change_features(st) ==
    FeatureLoop(st, SelectSeq(st.tree, LAMBDA e : HasChild(e, "changed-feature")))

\* variant: a staged text that cannot be loaded is an error of the apply
RECURSIVE InstallLoopStrict(_, _)
InstallLoopStrict(st, es) ==
    IF es = <<>> \/ Stop(st) THEN st
    ELSE InstallLoopStrict(LoadEntry(st, Head(es),
                                     Head(es).ch[FirstIdx(ChildIdx(Head(es), "module-yang"))].v,
                                     [st EXCEPT !.ret = "ERR"]),
                           Tail(es))

RECURSIVE InstallLoop(_, _)
InstallLoop(st, es) ==
    IF es = <<>> \/ Stop(st) THEN st
    ELSE InstallLoop(LoadEntry(st, Head(es),
                               Head(es).ch[FirstIdx(ChildIdx(Head(es), "module-yang"))].v,
                               [st EXCEPT !.fail = 1]),
                     Tail(es))

sr_lydmods_sched_ctx_install_modules(st) ==
    InstallLoop(st, SelectSeq(st.tree,
                    LAMBDA e : e.k = "installed-module" /\ HasChild(e, "module-yang")))

\* variant: the removed modules are not checked
CheckRemovedSkipped(st) == st

\* sr_lydmods_sched_check_removed_modules: a removed module must not be
\* implemented in the new context
sr_lydmods_sched_check_removed_modules(st) ==
    IF \E i \in 1..Len(st.tree) :
          /\ st.tree[i].k = "module" /\ HasChild(st.tree[i], "removed")
          /\ CtxHas(st.ctx, st.tree[i].name, RevisionOf(st.tree[i]))
          /\ st.ctx[st.tree[i].name].impl
    THEN [st EXCEPT !.fail = 1]
    ELSE st

(***************************************************************************)
(* Apply Engine, step 1 continued: the stored data under the new context.  *)
(***************************************************************************)
ModSeq == <<"A", "B">>
\* the payloads a caller attaches to a staged module: one leaf each
Seeds == {"p"}
SeedLeaves(data) == {data}

\* lyd_parse_data_mem without LYD_PARSE_STRICT: data of modules and nodes
\* the context does not know are skipped; a value that does not fit the
\* node's type fails the parse
ParseFails(ctx, d) ==
    \E m \in Mods : CtxImplemented(ctx, m) /\ d[m] \cap Unparsable(m, ctx[m].ver) # {}
Parsed(ctx, d) ==
    [m \in Mods |-> IF CtxImplemented(ctx, m) THEN d[m] \cap Known(m, ctx[m].ver) ELSE {}]

\* the staged entries whose "data" parses (LYD_PARSE_STRICT) in the context
SeedOk(ctx, e) ==
    /\ e.k = "installed-module" /\ HasChild(e, "data")
    /\ CtxImplemented(ctx, e.name)
    /\ \A s \in ChildVals(e, "data") :
          /\ SeedLeaves(s) \subseteq Known(e.name, ctx[e.name].ver)
          /\ SeedLeaves(s) \cap Unparsable(e.name, ctx[e.name].ver) = {}
SeedOf(ctx, tree, m) ==
    UNION {SeedLeaves(s) : s \in UNION {ChildVals(tree[i], "data") :
                  i \in {j \in FindEntry(tree, "installed-module", m) : SeedOk(ctx, tree[j])}}}

\* lyd_validate_all: every implemented module has its mandatory leaves
ValidData(ctx, d) ==
    \A m \in Mods : CtxImplemented(ctx, m) => Mandatory(m, ctx[m].ver, ctx[m].feats) \subseteq d[m]

\* the sr_module_file_data_set calls of the last loop, in order, as
\* <<module, datastore>>; io = "write": the second call fails
RECURSIVE WriteFiles(_, _, _, _, _)
WriteFiles(st, ms, newS, newR, io) ==
    IF ms = <<>> THEN st
    ELSE LET m == Head(ms)
             s1 == [st EXCEPT !.startup[m] = File(newS[m])]
         IN IF io = "write" THEN [s1 EXCEPT !.ret = "ERR"]
            ELSE WriteFiles([s1 EXCEPT !.running[m] = File(newR[m])], Tail(ms), newS, newR, io)

\* the stored data of the implemented modules of the old context
OldData(impl, files) ==
    [m \in Mods |-> IF m \in impl /\ files[m].ex THEN files[m].leaves ELSE {}]

\* the data parsed in the new context, with the seed data linked in
NewData(st, d) ==
    [m \in Mods |-> Parsed(st.ctx, d)[m] \cup SeedOf(st.ctx, st.tree, m)]

\* the modules whose files are written: those of the old context that are
\* implemented in the new one, and the owners of seed data
Remembered(st, impl) ==
    {m \in impl : CtxImplemented(st.ctx, m)}
    \cup {m \in Mods : \E i \in FindEntry(st.tree, "installed-module", m) :
                          SeedOk(st.ctx, st.tree[i])}

\* variant: the files are written before the validation decides
ValidatedAfterWrite(st, io, set, newS, newR) ==
    [WriteFiles(st, SelectSeq(ModSeq, LAMBDA m : m \in set), newS, newR, io)
        EXCEPT !.fail = IF ~ValidData(st.ctx, newS) \/ ~ValidData(st.ctx, newR) THEN 1 ELSE 0]

Validated(st, io, set, newS, newR) ==
    IF ~ValidData(st.ctx, newS) \/ ~ValidData(st.ctx, newR)
    THEN [st EXCEPT !.fail = 1]
    ELSE WriteFiles(st, SelectSeq(ModSeq, LAMBDA m : m \in set), newS, newR, io)

Reparsed(st, io, impl, oldS, oldR) ==
    IF ParseFails(st.ctx, oldS) \/ ParseFails(st.ctx, oldR)
    THEN [st EXCEPT !.fail = 1]
    ELSE Validated(st, io, Remembered(st, impl), NewData(st, oldS), NewData(st, oldR))

\* old is the context without the scheduled changes, impl its implemented
\* modules; a module without a startup file cannot be read
ReadOld(st, io, old, impl) ==
    IF ~old.ok \/ \E m \in impl : ~st.startup[m].ex
    THEN [st EXCEPT !.ret = "ERR"]
    ELSE Reparsed(st, io, impl, OldData(impl, st.startup), OldData(impl, st.running))

WithOld(st, io, old) == ReadOld(st, io, old, {m \in Mods : CtxImplemented(old.ctx, m)})

sr_lydmods_sched_update_data(st, io) ==
    WithOld(st, io, sr_lydmods_ctx_load_modules(st.tree, EmptyCtx, 1, 1))

(***************************************************************************)
(* Apply Engine, step 2: commit into the registry tree.                    *)
(***************************************************************************)
Abort(st, what) == [Enter(st, what) EXCEPT !.ret = "ABORT"]

\* sr_create_startup_file: the startup file of a new record; the file of
\* an updated module is kept
sr_create_startup_file(st, m) ==
    IF st.startup[m].ex THEN st ELSE [st EXCEPT !.startup[m] = File({})]

\* variant: the new record gets no enabled-feature children
AddModuleWithoutFeatures(tree, ctx, m, sorted) ==
    InsertEntry(tree, Entry("module", m,
        IF ctx[m].ver # NoVer THEN <<Node("revision", ctx[m].ver, "")>> ELSE <<>>), sorted)

sr_lydmods_add_module(tree, ctx, m, sorted) ==
    LET fs == SetToSeq(ctx[m].feats \cap Features(m, ctx[m].ver))
        nodes == (IF ctx[m].ver # NoVer THEN <<Node("revision", ctx[m].ver, "")>> ELSE <<>>)
                 \o [i \in 1..Len(fs) |-> Node("enabled-feature", fs[i], "")]
    IN InsertEntry(tree, Entry("module", m, AddChildren(<<>>, nodes, sorted)), sorted)

RECURSIVE sr_lydmods_add_module_with_imps_r(_, _, _)
RECURSIVE AddImports(_, _, _)
AddImports(st, imps, sorted) ==
    IF imps = <<>> \/ st.ret # "OK" THEN st
    ELSE AddImports(sr_lydmods_add_module_with_imps_r(st, Head(imps), sorted),
                    Tail(imps), sorted)

\* s is the state of the call and s1 the state with the record of the
\* module, each bound to its value once
sr_lydmods_add_module_with_imps_r(st, m, sorted) ==
    CHOOSE r \in
        {AddImports(s1, Imports(m, s1.ctx[m].ver), sorted) :
            s1 \in {IF s.ctx[m].impl /\ FindEntry(s.tree, "module", m) = {}
                    THEN sr_create_startup_file(
                             [s EXCEPT !.tree = sr_lydmods_add_module(@, s.ctx, m, sorted)], m)
                    ELSE s : s \in {st}}} : TRUE

\* variant: the data files are deleted but the record stays, without markers
FinalizeRemoveKeepsRecord(st, i, update) ==
    LET m == st.tree[i].name
        s1 == IF update = 0
              THEN [st EXCEPT !.startup[m] = NoFile, !.running[m] = NoFile]
              ELSE st
    IN [s1 EXCEPT !.tree[i].ch = SelectSeq(@, LAMBDA n : ~IsMarker(n.t))]

\* the record at index i is dropped; its data files too unless it is updated
sr_lydmods_sched_finalize_module_remove(st, i, update) ==
    LET m == st.tree[i].name
        s1 == IF update = 0
              THEN [st EXCEPT !.startup[m] = NoFile, !.running[m] = NoFile]
              ELSE st
    IN [s1 EXCEPT !.tree = RemoveAt(@, i)]

\* variant: the old record is removed as a removed module is, with its
\* data files
FinalizeUpdateAsRemoval(st, i, sorted) ==
    LET m == st.tree[i].name
    IN IF ~CtxImplemented(st.ctx, m) THEN Abort(st, "assert ly_mod")
       ELSE sr_lydmods_add_module_with_imps_r(
                sr_lydmods_sched_finalize_module_remove(st, i, 0), m, sorted)

\* variant: the record added again carries the marker of the update
FinalizeUpdateKeepsMarker(st, i, sorted) ==
    LET m == st.tree[i].name
    IN IF ~CtxImplemented(st.ctx, m) THEN Abort(st, "assert ly_mod")
       ELSE [sr_lydmods_add_module_with_imps_r(
                 sr_lydmods_sched_finalize_module_remove(st, i, 1), m, sorted)
             EXCEPT !.tree = NewPath(@, m, Node("updated-yang", st.ctx[m].ver, ""), sorted)]

sr_lydmods_sched_finalize_module_update(st, i, sorted) ==
    LET m == st.tree[i].name
    IN IF ~CtxImplemented(st.ctx, m) THEN Abort(st, "assert ly_mod")
       ELSE sr_lydmods_add_module_with_imps_r(
                sr_lydmods_sched_finalize_module_remove(st, i, 1), m, sorted)

\* variant: the marker is freed and the enabled-feature list is left alone
FoldFeatureMarkerOnly(r, n, sorted) ==
    [ret |-> "OK",
     ch |-> SelectSeq(r.ch, LAMBDA c : ~(c.t = "changed-feature" /\ c.v = n.v /\ c.w = n.w))]

\* one changed-feature node n folded into the children ch of its record;
\* r is [ret, ch]
FoldFeature(r, n, sorted) ==
    LET ch == SelectSeq(r.ch, LAMBDA c : ~(c.t = "changed-feature" /\ c.v = n.v /\ c.w = n.w))
        on == {k \in 1..Len(ch) : ch[k].t = "enabled-feature" /\ ch[k].v = n.v}
    IN IF n.w = "enable"
       THEN IF on # {} THEN [ret |-> "ERR", ch |-> ch]
            ELSE [ret |-> "OK", ch |-> InsertChild(ch, Node("enabled-feature", n.v, ""), sorted)]
       ELSE IF Cardinality(on) # 1 THEN [ret |-> "ABORT", ch |-> ch]
            ELSE [ret |-> "OK", ch |-> RemoveAt(ch, FirstIdx(on))]

RECURSIVE FoldFeatures(_, _, _)
FoldFeatures(r, cfs, sorted) ==
    IF cfs = <<>> \/ r.ret # "OK" THEN r
    ELSE FoldFeatures(FoldFeature(r, Head(cfs), sorted), Tail(cfs), sorted)

sr_lydmods_sched_finalize_module_change_features(st, i, sorted) ==
    LET e == st.tree[i]
        r == FoldFeatures([ret |-> "OK", ch |-> e.ch],
                          SelectSeq(e.ch, LAMBDA c : c.t = "changed-feature"), sorted)
    IN IF ~CtxImplemented(st.ctx, e.name) THEN Abort(st, "assert ly_mod")
       ELSE IF r.ret = "ABORT" THEN Abort([st EXCEPT !.tree[i].ch = r.ch], "assert count")
       ELSE [st EXCEPT !.tree[i].ch = r.ch, !.ret = r.ret]

\* variant: a promoted staged entry stays in the list
FinalizeInstallKeepsEntry(st, i, sorted) ==
    LET m == st.tree[i].name
        later == {j \in (i + 1)..Len(st.tree) : st.tree[j].k = "installed-module"}
        NoMod2(j) == ~CtxImplemented(st.ctx, st.tree[j].name)
        Pulls(j) == \E u \in 1..Len(Imports(st.tree[j].name, st.ctx[st.tree[j].name].ver)) :
                       LET imp == Imports(st.tree[j].name, st.ctx[st.tree[j].name].ver)[u]
                       IN st.ctx[imp].impl /\ imp = m
        hit == {j \in later : NoMod2(j) \/ Pulls(j)}
    IN IF hit # {}
       THEN IF NoMod2(FirstIdx(hit)) THEN Abort(st, "assert ly_mod")
            ELSE [st EXCEPT !.tree = RemoveAt(@, i)]
       ELSE IF ~CtxImplemented(st.ctx, m) THEN Abort(st, "assert ly_mod")
       ELSE sr_lydmods_add_module_with_imps_r(st, m, sorted)

\* the staged entry at index i: dropped when a staged entry after it
\* imports it as an implemented module, promoted to a record otherwise
sr_lydmods_sched_finalize_module_install(st, i, sorted) ==
    LET m == st.tree[i].name
        later == {j \in (i + 1)..Len(st.tree) : st.tree[j].k = "installed-module"}
        NoMod2(j) == ~CtxImplemented(st.ctx, st.tree[j].name)
        Pulls(j) == \E u \in 1..Len(Imports(st.tree[j].name, st.ctx[st.tree[j].name].ver)) :
                       LET imp == Imports(st.tree[j].name, st.ctx[st.tree[j].name].ver)[u]
                       IN st.ctx[imp].impl /\ imp = m
        hit == {j \in later : NoMod2(j) \/ Pulls(j)}
        dropped == [st EXCEPT !.tree = RemoveAt(@, i)]
    IN IF hit # {}
       THEN IF NoMod2(FirstIdx(hit)) THEN Abort(st, "assert ly_mod") ELSE dropped
       ELSE IF ~CtxImplemented(st.ctx, m) THEN Abort(st, "assert ly_mod")
       ELSE sr_lydmods_add_module_with_imps_r(dropped, m, sorted)

\* variant: the inverse dependencies are kept when the stored ones are freed
IsDepsForward(t) == t \in {"data-deps", "op-deps"}

IsDeps(t) == t \in {"data-deps", "op-deps", "inverse-data-deps"}

\* the inner loop of the commit over the children of the record at index i:
\* stored dependencies are freed up to the first marker, which decides
CommitModule(st, i, sorted) ==
    LET e == st.tree[i]
        mk == {k \in 1..Len(e.ch) : IsMarker(e.ch[k].t)}
        stop == IF mk = {} THEN Len(e.ch) + 1 ELSE FirstIdx(mk)
        keep == {k \in 1..Len(e.ch) : k >= stop \/ ~IsDeps(e.ch[k].t)}
        wiped == [k \in 1..Cardinality(keep) |->
                     e.ch[CHOOSE x \in keep : Cardinality({y \in keep : y < x}) = k - 1]]
        s1 == [st EXCEPT !.tree[i].ch = wiped]
        t == IF mk = {} THEN "" ELSE e.ch[stop].t
    IN IF t = "removed" THEN sr_lydmods_sched_finalize_module_remove(s1, i, 0)
       ELSE IF t = "updated-yang" THEN sr_lydmods_sched_finalize_module_update(s1, i, sorted)
       ELSE IF t = "changed-feature"
            THEN sr_lydmods_sched_finalize_module_change_features(s1, i, sorted)
       ELSE s1

\* LY_LIST_FOR_SAFE over the top-level entries: the next entry is taken
\* before the current one is processed; cur = 0 is the end of the list
RECURSIVE CommitLoop(_, _, _)
CommitLoop(st, cur, sorted) ==
    IF cur = 0 \/ st.ret # "OK" THEN st
    ELSE LET e == st.tree[cur]
             s1 == IF e.k = "module" THEN CommitModule(st, cur, sorted)
                   ELSE sr_lydmods_sched_finalize_module_install(st, cur, sorted)
             nxt == IF cur < Len(st.tree)
                    THEN FindEntry(s1.tree, st.tree[cur + 1].k, st.tree[cur + 1].name)
                    ELSE {}
         IN CommitLoop(s1, IF nxt = {} THEN 0 ELSE FirstIdx(nxt), sorted)

(***************************************************************************)
(* Dependency Engine, as far as the apply needs it: the data dependencies  *)
(* of a module on other modules and the inverse dependencies.              *)
(***************************************************************************)
\* variant: the dependency is added without the search for a duplicate
ModdepAddAlways(sr_deps, dep_type, mod_name, node, sorted) ==
    Append(sr_deps, Dep(IF dep_type = "SR_DEP_REF" THEN "module" ELSE "inst-id", mod_name,
                        IF dep_type = "SR_DEP_REF" THEN Null ELSE node))

\* sr_lydmods_moddep_add: a module reference (SR_DEP_REF) or the
\* instance-identifier node (SR_DEP_INSTID) is added to sr_deps unless the
\* list holds it already
sr_lydmods_moddep_add(sr_deps, dep_type, mod_name, node, sorted) ==
    LET kind == IF dep_type = "SR_DEP_REF" THEN "module" ELSE "inst-id"
        set == IF dep_type = "SR_DEP_REF"
               THEN {k \in 1..Len(sr_deps) : sr_deps[k].k = "module" /\ sr_deps[k].m = mod_name}
               ELSE {k \in 1..Len(sr_deps) : sr_deps[k].k = "inst-id" /\ sr_deps[k].p = node}
    IN IF set # {} THEN sr_deps
       ELSE InsertAt(sr_deps,
                     InsertPos([k \in 1..Len(sr_deps) |-> sr_deps[k].k], kind, sorted),
                     Dep(kind, mod_name, IF dep_type = "SR_DEP_REF" THEN Null ELSE node))

\* sr_lydmods_moddep_type over the types of a node
RECURSIVE sr_lydmods_moddep_type(_, _, _, _)
sr_lydmods_moddep_type(types, node, sr_deps, sorted) ==
    IF types = <<>> THEN sr_deps
    ELSE LET dep_mods == sr_lydmods_moddep_expr_get_dep_mods(node, Head(types).atoms, <<>>)
             first == IF dep_mods = <<>> THEN Null ELSE dep_mods[1]
         IN sr_lydmods_moddep_type(Tail(types), node,
                IF Head(types).base = "inst"
                THEN sr_lydmods_moddep_add(sr_deps, "SR_DEP_INSTID", first, node, sorted)
                ELSE IF dep_mods # <<>>
                     THEN sr_lydmods_moddep_add(sr_deps, "SR_DEP_REF", first, Null, sorted)
                ELSE sr_deps,
                sorted)

\* the modules collected from the when and must expressions are added
RECURSIVE AddDepMods(_, _, _)
AddDepMods(sr_deps, dep_mods, sorted) ==
    IF dep_mods = <<>> THEN sr_deps
    ELSE AddDepMods(sr_lydmods_moddep_add(sr_deps, "SR_DEP_REF", Head(dep_mods), Null, sorted),
                    Tail(dep_mods), sorted)

\* one enabled node of the traversal: its type, then its when and must
Collect(sr_deps, elem, sorted) ==
    AddDepMods(sr_lydmods_moddep_type(Types(elem), elem, sr_deps, sorted),
               CondLoop(elem, Conds(elem), <<>>), sorted)

\* sr_lydmods_add_data_deps_r from data_root over the nodes todo, and
\* sr_lydmods_add_op_deps.  acc is [deps, ops]: the list sr_deps that is
\* filled and the op-deps nodes of sr_mod.
RECURSIVE sr_lydmods_add_data_deps_r(_, _, _, _, _)
RECURSIVE sr_lydmods_add_op_deps(_, _, _, _)
sr_lydmods_add_data_deps_r(acc, todo, data_root, F, sorted) ==
    IF todo = <<>> THEN acc
    ELSE IF Disabled(Head(todo), F)
         THEN sr_lydmods_add_data_deps_r(acc, Tail(todo), data_root, F, sorted)
    ELSE IF NodeType(Head(todo)) \in Ops /\ Head(todo) # data_root
         THEN sr_lydmods_add_data_deps_r(
                  [acc EXCEPT !.ops = sr_lydmods_add_op_deps(@, Head(todo), F, sorted)],
                  Tail(todo), data_root, F, sorted)
    ELSE sr_lydmods_add_data_deps_r(
             [acc EXCEPT !.deps = Collect(@, Head(todo), sorted)],
             Children(Head(todo)) \o Tail(todo), data_root, F, sorted)

sr_lydmods_add_op_deps(ops, op_root, F, sorted) ==
    LET empty == [deps |-> <<>>, ops |-> ops]
        input == IF NodeType(op_root) = "notif"
              THEN sr_lydmods_add_data_deps_r(empty, <<op_root>>, op_root, F, sorted)
              ELSE sr_lydmods_add_data_deps_r(empty, Children(op_root), Null, F, sorted)
    IN IF \E k \in 1..Len(ops) : ops[k].v = op_root THEN ops
       ELSE Append(input.ops, [Node("op-deps", op_root, "") EXCEPT !.d = input.deps])

\* variant: the roots are traversed as if no feature were enabled
RECURSIVE RootLoopFeatureless(_, _, _, _)
RootLoopFeatureless(acc, roots, F, sorted) ==
    IF roots = <<>> THEN acc
    ELSE RootLoopFeatureless(
             sr_lydmods_add_data_deps_r(acc, <<Head(roots)>>, Head(roots), {}, sorted),
             Tail(roots), F, sorted)

\* the three loops of sr_lydmods_add_all_deps over the roots of the module
RECURSIVE RootLoop(_, _, _, _)
RootLoop(acc, roots, F, sorted) ==
    IF roots = <<>> THEN acc
    ELSE RootLoop(sr_lydmods_add_data_deps_r(acc, <<Head(roots)>>, Head(roots), F, sorted),
                  Tail(roots), F, sorted)

\* the op-deps nodes are linked into the record
RECURSIVE AddOps(_, _, _)
AddOps(ch, ops, sorted) ==
    IF ops = <<>> THEN ch ELSE AddOps(InsertChild(ch, Head(ops), sorted), Tail(ops), sorted)

\* variant: the inverse dependency is never recorded
AddInvDataDepNever(e, inv_dep_mod, sorted) == e

sr_lydmods_add_inv_data_dep(e, inv_dep_mod, sorted) ==
    IF inv_dep_mod \in ChildVals(e, "inverse-data-deps") THEN e
    ELSE [e EXCEPT !.ch = InsertChild(@, Node("inverse-data-deps", inv_dep_mod, ""), sorted)]

\* the second half of sr_lydmods_add_all_deps: an inverse dependency in the
\* record of every module the data-deps name
RECURSIVE AddInverse(_, _, _, _)
AddInverse(st, deps, m, sorted) ==
    IF deps = <<>> \/ st.ret # "OK" THEN st
    ELSE LET set2 == FindEntry(st.tree, "module", Head(deps).m)
         IN IF Cardinality(set2) # 1 THEN Abort(st, "assert set2")
            ELSE AddInverse([st EXCEPT !.tree[FirstIdx(set2)] =
                                 sr_lydmods_add_inv_data_dep(@, m, sorted)],
                            Tail(deps), m, sorted)

sr_lydmods_add_all_deps(st, i, sorted) ==
    LET e == st.tree[i]
        acc == RootLoop([deps |-> <<>>, ops |-> <<>>], Roots(e.name),
                        st.ctx[e.name].feats, sorted)
        node == [Node("data-deps", "", "") EXCEPT !.d = acc.deps]
    IN IF HasChild(e, "data-deps") \/ HasChild(e, "op-deps") THEN Abort(st, "assert no deps")
       ELSE IF ~Asserted(e.name, st.ctx[e.name].feats) THEN Abort(st, "assert top_node")
       ELSE AddInverse([st EXCEPT !.tree[i].ch = AddOps(InsertChild(@, node, sorted),
                                                        acc.ops, sorted)],
                       SelectSeq(acc.deps, LAMBDA d : d.k = "module"), e.name, sorted)

\* the last loop of the apply, over all top-level entries
RECURSIVE RebuildLoop(_, _, _)
RebuildLoop(st, i, sorted) ==
    IF i > Len(st.tree) \/ st.ret # "OK" THEN st
    ELSE IF ~CtxImplemented(st.ctx, st.tree[i].name) THEN Abort(st, "assert ly_mod")
    ELSE RebuildLoop(sr_lydmods_add_all_deps(st, i, sorted), i + 1, sorted)

(***************************************************************************)
(* sr_lydmods_sched_apply.                                                 *)
(***************************************************************************)
ApplyStart(tree, S, R) ==
    [ret |-> "OK", change |-> 0, fail |-> 0, ctx |-> EmptyCtx, tree |-> tree,
     startup |-> S, running |-> R, phase |-> <<>>]

\* the steps of the apply: each is skipped after an error or a failure
\* ("goto cleanup"), the later ones also when nothing is scheduled
\* ("if (*change)")
UpdateModules(st) ==
    IF Stop(st) THEN st ELSE sr_lydmods_sched_ctx_update_modules(Enter(st, "update"))
LoadModules(st) ==
    IF Stop(st) THEN st ELSE LoadRemaining(Enter(st, "load"))
ChangeFeatures(st) ==
    IF Stop(st) THEN st ELSE sr_lydmods_sched_ctx_change_features(Enter(st, "features"))
InstallModules(st) ==
    IF Stop(st) THEN st ELSE sr_lydmods_sched_ctx_install_modules(Enter(st, "install"))
CheckRemoved(st) ==
    IF Stop(st) \/ st.change = 0 THEN st
    ELSE sr_lydmods_sched_check_removed_modules(Enter(st, "removed"))
UpdateData(st, io) ==
    IF Stop(st) \/ st.change = 0 THEN st
    ELSE sr_lydmods_sched_update_data(Enter(st, "data"), io)
\* variant: the commit does not look at fail
CommitUngated(st, sorted) ==
    IF st.ret # "OK" \/ st.change = 0 THEN st
    ELSE CommitLoop(Enter(st, "commit"), IF st.tree = <<>> THEN 0 ELSE 1, sorted)
Commit(st, sorted) ==
    IF Stop(st) \/ st.change = 0 THEN st
    ELSE CommitLoop(Enter(st, "commit"), IF st.tree = <<>> THEN 0 ELSE 1, sorted)
Rebuild(st, sorted) ==
    IF Stop(st) \/ st.change = 0 THEN st
    ELSE RebuildLoop(Enter(st, "deps"), 1, sorted)

\* variant: the cleanup leaves change as it is
CleanupKeepsChange(st) == st

Cleanup(st) == IF st.ret = "OK" /\ st.fail = 1 THEN [st EXCEPT !.change = 0] ELSE st

Candidate(st) == InstallModules(ChangeFeatures(LoadModules(UpdateModules(st))))

Checked(st, io) == UpdateData(CheckRemoved(st), io)

Committed(st, sorted) == Rebuild(Commit(st, sorted), sorted)

sr_lydmods_sched_apply(tree, S, R, io, sorted) ==
    Cleanup(Committed(Checked(Candidate(ApplyStart(tree, S, R)), io), sorted))

(***************************************************************************)
(* The state machine.  Every Schedule Manager call loads the registry,     *)
(* changes the tree in memory and stores it (sr_lydmods_print); the file   *)
(* system decides (io) how the store ends.                                 *)
(***************************************************************************)
NotHeld == [held |-> FALSE, tree |-> <<>>]
Idle == Call("", "", "OK")

\* the registry as sr_lydmods_create leaves it: no module of a caller is
\* installed or staged (the internal modules are left out of the model)
NoExpr == [pc |-> "none", ctx_node |-> Null, atom |-> Null, top_node |-> Null, dep_mod |-> Null]
NoCallers == [of |-> <<>>, stored |-> <<>>]
NoWalk == [pc |-> "none", op |-> Null, input |-> <<>>, output |-> <<>>, in |-> <<>>, out |-> <<>>]
NoDaemon == [pc |-> "none", dir |-> <<>>, rc_load |-> 0, plugin_count |-> 0, sess |-> FALSE,
             i |-> 0, inits |-> <<>>, cleanups |-> <<>>, rc |-> "EXIT_FAILURE",
             handlers |-> FALSE, loop_finish |-> 0, lock |-> "free", notified |-> FALSE,
             handler |-> "none", on |-> "none", signals |-> 0]
NoCommit == [pc |-> "none", st |-> <<>>, cur |-> 0, fresh |-> {}, handled |-> <<>>,
             remarked |-> FALSE, graph |-> <<>>, impl |-> {}, recs |-> {}, stack |-> <<>>,
             err |-> FALSE]

Init ==
    /\ persisted = [ok |-> TRUE, tree |-> <<>>]
    /\ startup = [m \in Mods |-> NoFile]
    /\ running = [m \in Mods |-> NoFile]
    /\ sr_mods = NotHeld
    /\ last = Idle
    /\ ly_sorted \in BOOLEAN
    /\ expr = NoExpr
    /\ callers = NoCallers
    /\ walk = NoWalk
    /\ daemon = NoDaemon
    /\ commit = NoCommit

\* the end of a Schedule Manager call with the result r of its change to
\* the tree: the error is returned, or the tree is stored; [ret, file]
Finish(r, io) ==
    IF r.ret # "OK" THEN [ret |-> r.ret, file |-> persisted]
    ELSE sr_lydmods_print(r.tree, io)

\* load, the change of the tree, store: r is the result of the change on
\* the loaded tree
Stored(r) ==
    /\ ~sr_mods.held
    /\ (persisted.ok /\ r.ret = "OK") => Pending(r.tree) <= MaxSched
    /\ \E io \in IOs : persisted' = Finish(IF persisted.ok THEN r ELSE sr_lydmods_parse, io).file
    /\ last' = Idle
    /\ UNCHANGED <<startup, running, sr_mods, ly_sorted, expr, callers, walk, daemon, commit>>

\* the caller has parsed the module and names some of its features
DeferredAddModule ==
    \E m \in Mods : \E F \in SUBSET Features(m, "v1") :
        /\ HasVer(m, "v1")
        /\ Stored(sr_lydmods_deferred_add_module(persisted.tree, m, "v1", SetToSeq(F), ly_sorted))

UnschedAddModule ==
    \E m \in Mods :
        /\ m \in Mods
        /\ Stored(sr_lydmods_unsched_add_module(persisted.tree, m))

\* the caller names a module of its context
DeferredDelModule ==
    \E m \in Mods :
        /\ persisted.ok /\ Installed(persisted.tree, m)
        /\ Stored(sr_lydmods_deferred_del_module(persisted.tree, m, ly_sorted))

UnschedDelModule ==
    \E m \in Mods :
        /\ persisted.ok /\ Installed(persisted.tree, m)
        /\ Stored(sr_lydmods_unsched_del_module_with_imps(persisted.tree, m))

\* the caller has parsed a newer revision of a module of its context
DeferredUpdModule ==
    \E m \in Mods :
        /\ persisted.ok /\ Installed(persisted.tree, m) /\ HasVer(m, "v2")
        /\ InstalledVer(persisted.tree, m) = "v1"
        /\ Stored(sr_lydmods_deferred_upd_module(persisted.tree, m, "v2", ly_sorted))

UnschedUpdModule ==
    \E m \in Mods :
        /\ m \in Mods
        /\ Stored(sr_lydmods_unsched_upd_module(persisted.tree, m))

\* whether feature f is enabled in the caller's context
IsEnabled(tree, m, f) ==
    IF f \in ChildVals(tree[FirstIdx(FindEntry(tree, "module", m))], "enabled-feature")
    THEN 1 ELSE 0

\* the caller passes a module of its context and whether the feature is
\* enabled there
DeferredChangeFeature ==
    \E m \in Mods, to_enable \in {0, 1} :
        /\ persisted.ok /\ Installed(persisted.tree, m)
        /\ \E f \in Features(m, InstalledVer(persisted.tree, m)) :
              Stored(sr_lydmods_deferred_change_feature(persisted.tree, m, f, to_enable,
                                    IsEnabled(persisted.tree, m, f), ly_sorted))

\* sr_lydmods_deferred_add_module_data works on the tree of its caller,
\* who has loaded it, has parsed the data with the schema of the module and
\* stores the tree afterwards
DeferredAddModuleData ==
    \E m \in Mods, data \in Seeds :
        /\ SeedLeaves(data) \subseteq Known(m, "v1")
        /\ Stored(sr_lydmods_deferred_add_module_data(persisted.tree, m, data, ly_sorted))

\* sr_lydmods_sched_apply on the loaded registry; a failed assert ends the
\* process and with it the tree in memory
Applied(io) == sr_lydmods_sched_apply(persisted.tree, startup, running, io, ly_sorted)

SchedApply ==
    \E io \in {"ok", "write"} :
        LET st == Applied(io)
        IN /\ ~sr_mods.held /\ persisted.ok
           /\ sr_mods' = IF st.ret = "ABORT" THEN NotHeld ELSE [held |-> TRUE, tree |-> st.tree]
           /\ startup' = st.startup
           /\ running' = st.running
           /\ last' = [op |-> "sched_apply", mod |-> "", ret |-> st.ret, change |-> st.change,
                       fail |-> st.fail, phase |-> st.phase]
           /\ UNCHANGED <<persisted, ly_sorted, expr, callers, walk, daemon, commit>>

\* the caller of the apply stores a changed tree
MustStore == sr_mods.held /\ last.ret = "OK" /\ last.change = 1

StoreHeld ==
    \E io \in IOs :
        /\ MustStore
        /\ persisted' = sr_lydmods_print(sr_mods.tree, io).file
        /\ sr_mods' = NotHeld
        /\ last' = Idle
        /\ UNCHANGED <<startup, running, ly_sorted, expr, callers, walk, daemon, commit>>

\* and frees an unchanged one
FreeHeld ==
    /\ sr_mods.held /\ ~MustStore
    /\ sr_mods' = NotHeld
    /\ last' = Idle
    /\ UNCHANGED <<persisted, startup, running, ly_sorted, expr, callers, walk, daemon, commit>>

Toggle(L, l) == IF l \in L THEN L \ {l} ELSE L \cup {l}

\* the leaves the installed module requires with its enabled features
Required(tree, m) ==
    Mandatory(m, InstalledVer(tree, m),
              ChildVals(tree[FirstIdx(FindEntry(tree, "module", m))], "enabled-feature"))

\* a client of the datastores sets a leaf of an installed module or deletes
\* one that is not mandatory
EditData ==
    \E m \in Mods :
        /\ ~sr_mods.held /\ persisted.ok /\ Installed(persisted.tree, m)
        /\ \E l \in Known(m, InstalledVer(persisted.tree, m)) \ Required(persisted.tree, m) :
              \/ /\ startup[m].ex
                 /\ startup' = [startup EXCEPT ![m].leaves = Toggle(@, l)]
                 /\ running' = running
              \/ /\ running[m].ex
                 /\ running' = [running EXCEPT ![m].leaves = Toggle(@, l)]
                 /\ startup' = startup
        /\ UNCHANGED <<persisted, sr_mods, last, ly_sorted, expr, callers, walk, daemon, commit>>

Next ==
    \/ DeferredAddModule
    \/ UnschedAddModule
    \/ DeferredAddModuleData
    \/ DeferredDelModule
    \/ UnschedDelModule
    \/ DeferredUpdModule
    \/ UnschedUpdModule
    \/ DeferredChangeFeature
    \/ SchedApply
    \/ StoreHeld
    \/ FreeHeld
    \/ EditData

Spec == Init /\ [][Next]_vars

(***************************************************************************)
(* The classification of one atom of an expression, on its own: the        *)
(* context node of the expression and the atom are any two schema nodes.   *)
(***************************************************************************)
InitForeign ==
    /\ persisted = [ok |-> TRUE, tree |-> <<>>]
    /\ startup = [m \in Mods |-> NoFile]
    /\ running = [m \in Mods |-> NoFile]
    /\ sr_mods = NotHeld
    /\ last = Idle
    /\ ly_sorted \in BOOLEAN
    /\ \E c, a \in SNodes : expr = [NoExpr EXCEPT !.pc = "atoms", !.ctx_node = c, !.atom = a]
    /\ callers = NoCallers
    /\ walk = NoWalk
    /\ daemon = NoDaemon
    /\ commit = NoCommit

\* sr_lydmods_moddep_expr_get_dep_mods finds the top node
FindTopNode ==
    /\ expr.pc = "atoms"
    /\ expr' = [expr EXCEPT !.pc = "top", !.top_node = TopNode(expr.ctx_node)]
    /\ UNCHANGED <<persisted, startup, running, sr_mods, last, ly_sorted, callers, walk, daemon, commit>>

\* and classifies the atom
AtomIsForeign ==
    /\ expr.pc = "top"
    /\ expr' = [expr EXCEPT !.pc = "done",
                            !.dep_mod = sr_lydmods_moddep_expr_atom_is_foreign(expr.atom,
                                                                               expr.top_node)]
    /\ UNCHANGED <<persisted, startup, running, sr_mods, last, ly_sorted, callers, walk, daemon, commit>>

NextForeign == FindTopNode \/ AtomIsForeign

SpecForeign == InitForeign /\ [][NextForeign]_vars

(***************************************************************************)
(* Schedule Manager calls of two callers that do not take the lock: a call *)
(* loads the registry (sr_lydmods_parse), changes the tree in memory and   *)
(* stores it (sr_lydmods_print); the steps of the callers interleave.      *)
(***************************************************************************)
Callers == {"c1", "c2"}
NoCall == [pc |-> "idle", op |-> "", mod |-> "", tree |-> <<>>, ret |-> "", seen |-> 0]

\* the installation of A and B, scheduled and applied
Installation(sorted) ==
    sr_lydmods_sched_apply(
        sr_lydmods_deferred_add_module(
            sr_lydmods_deferred_add_module(<<>>, "A", "v1", <<>>, sorted).tree,
            "B", "v1", <<>>, sorted).tree,
        [m \in Mods |-> NoFile], [m \in Mods |-> NoFile], "ok", sorted)

InitUnlocked ==
    /\ ly_sorted \in BOOLEAN
    /\ persisted = [ok |-> TRUE, tree |-> Installation(ly_sorted).tree]
    /\ startup = Installation(ly_sorted).startup
    /\ running = Installation(ly_sorted).running
    /\ sr_mods = NotHeld
    /\ last = Idle
    /\ expr = NoExpr
    /\ callers = [of |-> [c \in Callers |-> NoCall], stored |-> <<>>]
    /\ walk = NoWalk
    /\ daemon = NoDaemon
    /\ commit = NoCommit

\* the change of the call to the tree it has loaded
Change(op, tree, m) ==
    IF op = "del" THEN sr_lydmods_deferred_del_module(tree, m, ly_sorted)
    ELSE sr_lydmods_deferred_upd_module(tree, m, "v2", ly_sorted)

\* variant: the tree is read again when it is stored
HeldTreeFresh(c) == persisted.tree

\* the tree the call works on: the one it has loaded
HeldTree(c) == callers.of[c].tree

\* sr_lydmods_parse at the start of sr_lydmods_deferred_del_module(m) or of
\* sr_lydmods_deferred_upd_module(m)
Load ==
    \E c \in Callers, op \in {"del", "upd"}, m \in Mods :
        /\ callers.of[c].pc = "idle"
        /\ op = "upd" => HasVer(m, "v2")
        /\ callers' = [callers EXCEPT !.of[c] =
               IF sr_lydmods_parse.ret # "OK" THEN [NoCall EXCEPT !.pc = "done", !.ret = "ERR"]
               ELSE [NoCall EXCEPT !.pc = "loaded", !.op = op, !.mod = m,
                                   !.tree = sr_lydmods_parse.tree,
                                   !.seen = Len(callers.stored)]]
        /\ UNCHANGED <<persisted, startup, running, sr_mods, last, ly_sorted, expr, walk, daemon, commit>>

\* the rest of the call: the check, the marker and sr_lydmods_print
Store ==
    \E c \in Callers, io \in IOs :
        /\ callers.of[c].pc = "loaded"
        /\ persisted' = Finish(Change(callers.of[c].op, HeldTree(c), callers.of[c].mod), io).file
        /\ callers' = [callers EXCEPT
               !.of[c].pc = "done",
               !.of[c].ret = Finish(Change(callers.of[c].op, HeldTree(c), callers.of[c].mod), io).ret,
               !.stored = IF Finish(Change(callers.of[c].op, HeldTree(c), callers.of[c].mod), io).ret = "OK"
                          THEN Append(@, c) ELSE @]
        /\ UNCHANGED <<startup, running, sr_mods, last, ly_sorted, expr, walk, daemon, commit>>

NextUnlocked == Load \/ Store

SpecUnlocked == InitUnlocked /\ [][NextUnlocked]_vars

(***************************************************************************)
(* Properties of sr_lydmods_sched_apply.  In a state where the caller      *)
(* holds the tree of a returned apply, persisted.tree is the registry the  *)
(* call began with and sr_mods.tree the registry it left.                  *)
(***************************************************************************)
Returned == sr_mods.held /\ last.op = "sched_apply"
Succeeded == Returned /\ last.ret = "OK" /\ last.change = 1 /\ last.fail = 0
CanApply == ~sr_mods.held /\ persisted.ok

\* C1: when sr_lydmods_sched_apply returns without error and with fail = 1,
\* the registry tree is the one the call began with and change is 0.
C1_FailKeepsRegistry ==
    (Returned /\ last.ret = "OK" /\ last.fail = 1)
        => (sr_mods.tree = persisted.tree /\ last.change = 0)

C1_Witness ==
    /\ Returned /\ last.ret = "OK" /\ last.fail = 1
    /\ "data" \in Range(last.phase)
    /\ Pending(persisted.tree) = 2

\* C2: an apply on a registry without markers and staged entries reports
\* change = 0 and fail = 0 and leaves the registry and all data files as they
\* were; change = 1 is reported only when a marker or staged entry existed.
EmptyApply(st) ==
    /\ st.change = 0 /\ st.fail = 0
    /\ st.tree = persisted.tree
    /\ st.startup = startup /\ st.running = running

C2_EmptySchedule ==
    CanApply => \A io \in {"ok", "write"} :
        /\ Pending(persisted.tree) = 0 => EmptyApply(Applied(io))
        /\ Applied(io).change = 1 => Pending(persisted.tree) > 0

C2_Witness ==
    /\ Returned /\ last.ret = "OK" /\ last.change = 0 /\ last.fail = 0
    /\ Pending(persisted.tree) = 0
    /\ \E m \in Mods : Installed(persisted.tree, m) /\ startup[m].leaves # {}

\* C3: when a module without a record is staged for installation with the
\* feature set F and the apply succeeds, the registry has exactly one record
\* of the module, its enabled-feature list is exactly F, the record has no
\* marker and no staged entry of the module remains.
Promoted(e, tree) ==
    /\ Cardinality(FindEntry(tree, "module", e.name)) = 1
    /\ \A j \in FindEntry(tree, "module", e.name) :
          /\ ChildVals(tree[j], "enabled-feature") = ChildVals(e, "enabled-feature")
          /\ Unique(tree[j].ch, "enabled-feature")
          /\ ~HasMarker(tree[j])
    /\ FindEntry(tree, "installed-module", e.name) = {}

FreshStaged(tree) ==
    {i \in 1..Len(tree) : /\ tree[i].k = "installed-module"
                          /\ FindEntry(tree, "module", tree[i].name) = {}}

C3_InstallRoundTrip ==
    Succeeded => \A i \in FreshStaged(persisted.tree) :
                    Promoted(persisted.tree[i], sr_mods.tree)

C3_Witness ==
    /\ Succeeded
    /\ \E i \in FreshStaged(persisted.tree) :
          ChildVals(persisted.tree[i], "enabled-feature") = {"f1"}

\* C4: after an apply that returns without error with change = 1 and
\* fail = 0 no record carries a removed, updated or feature-change marker
\* and no staged entry remains.
C4_ScheduleConsumed ==
    Succeeded => \A i \in 1..Len(sr_mods.tree) :
                    sr_mods.tree[i].k = "module" /\ ~HasMarker(sr_mods.tree[i])

\* C5: when module b is marked removed and another entry that stays makes b
\* implemented in the new context, the apply reports fail = 1, the registry
\* is unchanged and b is still a record with its removal marker.
NewVer(e) ==
    IF HasChild(e, "updated-yang") THEN e.ch[FirstIdx(ChildIdx(e, "updated-yang"))].v
    ELSE RevisionOf(e)

StillNeeded(tree, b) ==
    \E i \in 1..Len(tree) :
        /\ tree[i].name # b /\ ~HasChild(tree[i], "removed")
        /\ b \in ImplImports(tree[i].name, NewVer(tree[i]))

C5_RemovedButNeeded ==
    \A b \in Mods :
        (/\ Returned /\ last.ret = "OK"
         /\ WithChild(persisted.tree, b, "removed") # {}
         /\ StillNeeded(persisted.tree, b))
        => /\ last.fail = 1
           /\ sr_mods.tree = persisted.tree
           /\ \E i \in WithChild(sr_mods.tree, b, "removed") :
                 HasChild(sr_mods.tree[i], "revision")

C5_Witness ==
    /\ Returned /\ last.ret = "OK" /\ last.fail = 1
    /\ "removed" \in Range(last.phase)
    /\ WithChild(persisted.tree, "B", "removed") # {}
    /\ StillNeeded(persisted.tree, "B")

\* C6: the apply writes a data file only after the merged startup and
\* running data were parsed and validated in the new context, and an apply
\* that reports fail = 1 leaves every startup and running file as it was.
OldImplemented ==
    {m \in Mods : CtxImplemented(sr_lydmods_ctx_load_modules(persisted.tree, EmptyCtx, 1, 1).ctx, m)}

MergedValid(c, oldS, oldR) ==
    /\ ~ParseFails(c.ctx, oldS) /\ ~ParseFails(c.ctx, oldR)
    /\ ValidData(c.ctx, NewData(c, oldS)) /\ ValidData(c.ctx, NewData(c, oldR))

FilesSafe(st) ==
    /\ st.fail = 1 => (st.startup = startup /\ st.running = running)
    /\ (st.startup # startup \/ st.running # running)
          => /\ "data" \in Range(st.phase)
             /\ MergedValid([ctx |-> st.ctx, tree |-> persisted.tree],
                            OldData(OldImplemented, startup),
                            OldData(OldImplemented, running))

C6_FilesAfterValidation ==
    CanApply => \A io \in {"ok", "write"} : FilesSafe(Applied(io))

C6_Witness ==
    /\ Returned /\ last.ret = "OK" /\ last.fail = 1
    /\ "data" \in Range(last.phase)
    /\ \E m \in Mods : WithChild(persisted.tree, m, "updated-yang") # {}
                       /\ startup[m].leaves # {}

\* C7: scheduling an installation that is staged already fails with EXISTS
\* and unscheduling one that is not staged fails with NOT_FOUND; the same
\* holds for the removal marker and for the update marker.
Paired(tree, m) ==
    /\ IF FindEntry(tree, "installed-module", m) # {}
       THEN \A F \in SUBSET Features(m, "v1") :
               sr_lydmods_deferred_add_module(tree, m, "v1", SetToSeq(F), ly_sorted).ret = "EXISTS"
       ELSE sr_lydmods_unsched_add_module(tree, m).ret = "NOT_FOUND"
    /\ IF WithChild(tree, m, "removed") # {}
       THEN sr_lydmods_deferred_del_module(tree, m, ly_sorted).ret = "EXISTS"
       ELSE sr_lydmods_unsched_del_module_with_imps(tree, m).ret = "NOT_FOUND"
    /\ IF WithChild(tree, m, "updated-yang") # {}
       THEN sr_lydmods_deferred_upd_module(tree, m, "v2", ly_sorted).ret = "EXISTS"
       ELSE sr_lydmods_unsched_upd_module(tree, m).ret = "NOT_FOUND"

C7_SchedulePairing ==
    persisted.ok => \A m \in Mods : Paired(persisted.tree, m)

C7_Witness ==
    /\ persisted.ok /\ ~sr_mods.held
    /\ StagedNames(persisted.tree) # {}
    /\ \E m \in Mods : WithChild(persisted.tree, m, "updated-yang") # {}
    /\ \E m \in Mods : Installed(persisted.tree, m) /\ WithChild(persisted.tree, m, "removed") = {}

\* C8: a Schedule Manager call that returns an error leaves the registry
\* file exactly as it was before the call.
AllOrNothing(out) == out.ret # "OK" => out.file = persisted

C8_AllOrNothing ==
    persisted.ok => \A m \in Mods, io \in IOs :
        /\ AllOrNothing(Finish(sr_lydmods_deferred_add_module(persisted.tree, m, "v1", <<>>, ly_sorted), io))
        /\ AllOrNothing(Finish(sr_lydmods_unsched_add_module(persisted.tree, m), io))
        /\ AllOrNothing(Finish(sr_lydmods_deferred_del_module(persisted.tree, m, ly_sorted), io))
        /\ AllOrNothing(Finish(sr_lydmods_unsched_del_module_with_imps(persisted.tree, m), io))
        /\ AllOrNothing(Finish(sr_lydmods_deferred_upd_module(persisted.tree, m, "v2", ly_sorted), io))
        /\ AllOrNothing(Finish(sr_lydmods_unsched_upd_module(persisted.tree, m), io))

\* C9: attaching seed data to a module that has no staged entry fails with
\* NOT_FOUND, like every other failure for a change that is not scheduled.
C9_NotScheduledIsNotFound ==
    persisted.ok => \A m \in Mods, data \in Seeds :
        FindEntry(persisted.tree, "installed-module", m) = {}
            => sr_lydmods_deferred_add_module_data(persisted.tree, m, data, ly_sorted).ret
                   = "NOT_FOUND"

\* C10: every module record of the registry carries at most one kind of
\* marker among removed, updated-yang and changed-feature.
MarkerKinds(e) == {t \in {"removed", "updated-yang", "changed-feature"} : HasChild(e, t)}

C10_OneMarkerKind ==
    persisted.ok => \A i \in 1..Len(persisted.tree) :
                       Cardinality(MarkerKinds(persisted.tree[i])) <= 1

(***************************************************************************)
(* Properties of the registry lists and of the dependency lists.           *)
(***************************************************************************)
\* C11: module names are unique across the module records and the staged
\* entries of the stored registry: no name occurs in two entries.
C11_NamesUnique ==
    persisted.ok => \A i, j \in 1..Len(persisted.tree) :
                       persisted.tree[i].name = persisted.tree[j].name => i = j

\* C12: when a module that is updated, feature-changed or staged depends in
\* the new context (through a when/must expression) on a module that is
\* neither implemented there nor staged, the apply reports fail = 1 and
\* takes no commit step.
ScheduledEntry(e) ==
    \/ e.k = "installed-module"
    \/ HasChild(e, "updated-yang")
    \/ HasChild(e, "changed-feature")

CondModules(m, F) ==
    {ModuleOf(a) : a \in UNION {UNION {Range(c) : c \in Range(Conds(n))} :
                                   n \in Range(Dfs(Roots(m), F))}}
Unresolved(ctx, tree, m) ==
    \E d \in CondModules(m, ctx[m].feats) \ {m} :
        ~CtxImplemented(ctx, d) /\ d \notin StagedNames(tree)

HasUnresolved(st) ==
    \E i \in 1..Len(persisted.tree) :
        /\ ScheduledEntry(persisted.tree[i])
        /\ CtxImplemented(st.ctx, persisted.tree[i].name)
        /\ Unresolved(st.ctx, persisted.tree, persisted.tree[i].name)

FailsUncommitted(st) ==
    HasUnresolved(st) => /\ "commit" \notin Range(st.phase)
                         /\ st.tree = persisted.tree
                         /\ st.ret = "OK" => st.fail = 1

C12_UnresolvedDependencyFails ==
    CanApply => \A io \in {"ok", "write"} : FailsUncommitted(Applied(io))

C12_Witness ==
    /\ Returned /\ last.ret = "OK" /\ last.fail = 1
    /\ HasUnresolved(Applied("ok"))

\* the scheduled changes of a tree as <<kind, module, value, change>>
Scheduled(tree) ==
    {<<"installed-module", m, "", "">> : m \in StagedNames(tree)}
    \cup UNION {{<<tree[i].ch[k].t, tree[i].name, tree[i].ch[k].v, tree[i].ch[k].w>> :
                    k \in {j \in 1..Len(tree[i].ch) : IsMarker(tree[i].ch[j].t)}} :
                i \in {j \in 1..Len(tree) : tree[j].k = "module"}}

\* C13: with every call as one critical section no update is lost: a
\* Schedule Manager call whose store succeeds keeps every scheduled change
\* of the registry, unless it is an unschedule call, which only takes
\* changes of one kind away and adds none.
KeepsSchedule(old, new) ==
    \/ old \subseteq new
    \/ /\ new \subseteq old
       /\ \A x, y \in old \ new : x[1] = y[1]

C13_NoLostUpdate ==
    [][(~sr_mods.held /\ ~sr_mods'.held /\ persisted.ok /\ persisted'.ok)
          => KeepsSchedule(Scheduled(persisted.tree), Scheduled(persisted'.tree))]_vars

C13_Witness ==
    /\ ~sr_mods.held /\ persisted.ok
    /\ Cardinality(Scheduled(persisted.tree)) = 2
    /\ \E x, y \in Scheduled(persisted.tree) : x[1] # y[1] /\ x[2] # y[2]

\* C14: an apply that returns an error value, from whichever phase, has
\* changed no stored state: the startup and running files are those the
\* call began with (the apply itself never writes the registry file).
NothingChanged(st) ==
    st.ret # "OK" => /\ st.startup = startup
                     /\ st.running = running

C14_ErrorChangesNothing ==
    CanApply => \A io \in {"ok", "write"} : NothingChanged(Applied(io))

\* the modules the data-deps of a record refer to
ForwardRefs(e) ==
    UNION {{e.ch[k].d[x].m : x \in {y \in 1..Len(e.ch[k].d) : e.ch[k].d[y].k = "module"}} :
             k \in ChildIdx(e, "data-deps")}

\* C15: after a successful apply with change = 1, a module record M named by
\* the forward references of a record A lists A among its inverse
\* dependencies, and no inverse-dependency list holds a name twice.
InverseComplete(tree) ==
    /\ \A a, m \in 1..Len(tree) :
          (tree[a].k = "module" /\ tree[m].k = "module" /\ tree[m].name \in ForwardRefs(tree[a]))
              => tree[a].name \in ChildVals(tree[m], "inverse-data-deps")
    /\ \A m \in 1..Len(tree) : Unique(tree[m].ch, "inverse-data-deps")

C15_InverseDeps == Succeeded => InverseComplete(sr_mods.tree)

C15_Witness ==
    /\ Succeeded
    /\ \E a, m \in 1..Len(sr_mods.tree) :
          /\ a # m /\ sr_mods.tree[m].name \in ForwardRefs(sr_mods.tree[a])
          /\ HasChild(persisted.tree[a], "changed-feature")

\* an apply that has committed and built the dependencies
Built(st) == st.ret = "OK" /\ st.change = 1 /\ st.fail = 0

\* the dependency lists of a registry tree: those of data-deps and the in
\* and out lists of op-deps
DepLists(tree) ==
    UNION {{tree[i].ch[k].d : k \in ChildIdx(tree[i], "data-deps") \cup ChildIdx(tree[i], "op-deps")}
           \cup {tree[i].ch[k].e : k \in ChildIdx(tree[i], "op-deps")} : i \in 1..Len(tree)}
NoDuplicate(deps) ==
    \A i, j \in 1..Len(deps) :
        (deps[i].k = deps[j].k /\ deps[i].m = deps[j].m /\ deps[i].p = deps[j].p) => i = j
OnePerPath(deps) ==
    \A i, j \in 1..Len(deps) :
        (deps[i].k = "inst-id" /\ deps[j].k = "inst-id" /\ deps[i].p = deps[j].p) => i = j
\* the data-deps of entry e, built with the features F of its module
\* enabled, name every foreign module of the when/must expressions once
OncePerForeign(e, F) ==
    \A k \in ChildIdx(e, "data-deps") :
        \A m \in CondModules(e.name, F) \ {e.name} :
            Cardinality({x \in 1..Len(e.ch[k].d) :
                            e.ch[k].d[x].k = "module" /\ e.ch[k].d[x].m = m}) = 1
OncePerForeignBuilt(st) ==
    Built(st) => \A i \in 1..Len(st.tree) :
                    OncePerForeign(st.tree[i], st.ctx[st.tree[i].name].feats)

\* C16: no dependency list of the registry holds two module references to
\* one module or two instance-identifier entries with one path, and a
\* foreign module that several when/must expressions of a module refer to
\* is one module reference of the data-deps an apply builds for it.
C16_NoDuplicateDeps ==
    /\ persisted.ok => \A deps \in DepLists(persisted.tree) : NoDuplicate(deps) /\ OnePerPath(deps)
    /\ CanApply => OncePerForeignBuilt(Applied("ok"))

C16_Witness ==
    /\ persisted.ok
    /\ \E i \in 1..Len(persisted.tree) :
          /\ persisted.tree[i].name = "A"
          /\ "f1" \in ChildVals(persisted.tree[i], "enabled-feature")
          /\ \E k \in ChildIdx(persisted.tree[i], "data-deps") :
                /\ Len(persisted.tree[i].ch[k].d) = 2
                /\ \E x \in 1..2 : persisted.tree[i].ch[k].d[x].k = "inst-id"
    /\ \E i \in 1..Len(persisted.tree) : HasChild(persisted.tree[i], "op-deps")

\* the dependency data of a tree, per entry and in stored order: the
\* data-deps lists, the op-deps nodes and the inverse dependencies
DepData(tree) ==
    [i \in 1..Len(tree) |->
        [name |-> tree[i].name,
         data |-> SelectSeq(tree[i].ch, LAMBDA n : n.t = "data-deps"),
         ops |-> SelectSeq(tree[i].ch, LAMBDA n : n.t = "op-deps"),
         inv |-> ChildSeq(tree[i], "inverse-data-deps")]]
\* the tree with the dependency data of all its entries taken out
RECURSIVE Wiped(_)
Wiped(tree) ==
    IF tree = <<>> THEN <<>>
    ELSE <<[Head(tree) EXCEPT !.ch = SelectSeq(@, LAMBDA n :
               n.t \notin {"data-deps", "op-deps", "inverse-data-deps"})]>>
         \o Wiped(Tail(tree))
SameAgain(st, again) ==
    /\ again.ret = "OK"
    /\ DepData(again.tree) = DepData(st.tree)
    /\ \A deps \in DepLists(again.tree) : NoDuplicate(deps)
    /\ \A i \in 1..Len(again.tree) : Unique(again.tree[i].ch, "inverse-data-deps")

\* C17: the dependency build is idempotent: with the dependency data of a
\* successfully applied registry wiped and the build run again in the same
\* context, the forward, instance-identifier, operation and inverse
\* dependency lists are the same, in the same order and without duplicates.
Idempotent(st) ==
    Built(st) => SameAgain(st, RebuildLoop([st EXCEPT !.tree = Wiped(st.tree)], 1, ly_sorted))

RECURSIVE AncestorOrSelf(_, _)
AncestorOrSelf(t, r) == r = t \/ (Parent(r) # Null /\ AncestorOrSelf(t, Parent(r)))
RECURSIVE TopAncestor(_)
TopAncestor(r) == IF Parent(r) = Null THEN r ELSE TopAncestor(Parent(r))
ForeignByRule(r, t) ==
    IF AncestorOrSelf(t, r) THEN FALSE
    ELSE IF NodeType(t) \in Ops THEN TRUE
    ELSE ModuleOf(TopAncestor(r)) # ModuleOf(t)

\* C18: the atom R of an expression with the top node T is local when T is
\* R or an ancestor of R; else it is foreign when T is an RPC, action or
\* notification; else it is foreign exactly when the module of the top-level
\* ancestor of R is not the module of T.
C18_ForeignRule ==
    expr.pc = "done" =>
        /\ expr.dep_mod # "ABORT"
        /\ (expr.dep_mod # Null) = ForeignByRule(expr.atom, expr.top_node)

(* Properties of the calls without the lock. *)
\* the scheduled change a call adds to the tree it has loaded
OwnChange(c) ==
    Scheduled(Change(callers.of[c].op, callers.of[c].tree, callers.of[c].mod).tree)
        \ Scheduled(callers.of[c].tree)
BothLoadedFirst(first, second) ==
    /\ first # second
    /\ callers.of[first].pc = "done" /\ callers.of[first].ret = "OK"
    /\ callers.of[second].pc = "done" /\ callers.of[second].ret = "OK"
    /\ callers.of[first].mod # callers.of[second].mod
    /\ callers.of[first].seen = 0 /\ callers.of[second].seen = 0
    /\ callers.stored = <<first, second>>

\* C19: without the lock, when two Schedule Manager calls on different
\* modules both load the registry before either stores it, both return
\* success and the stored registry holds the change of the call that stored
\* last and not the change of the other.
C19_LastWriterWins ==
    \A first, second \in Callers :
        BothLoadedFirst(first, second) =>
            /\ persisted.ok
            /\ OwnChange(first) # {} /\ OwnChange(second) # {}
            /\ OwnChange(second) \subseteq Scheduled(persisted.tree)
            /\ OwnChange(first) \cap Scheduled(persisted.tree) = {}

C19_Witness ==
    /\ BothLoadedFirst("c1", "c2")
    /\ callers.of["c1"].op = "del" /\ callers.of["c2"].op = "upd"

(* Properties of the order of the phases of an apply. *)
PhaseOrder == <<"update", "load", "features", "install", "removed", "data", "commit", "deps">>
Phases(st) == SelectSeq(st.phase, LAMBDA ph : ph \in Range(PhaseOrder))
Proceeds(st) == st.ret = "OK" /\ st.change = 1 /\ st.fail = 0

\* C20: the phases of one apply are entered in their order; the check of
\* the removed modules and the check of the data run only with change = 1,
\* the former before the latter; and the registry tree is changed or a file
\* deleted only in the commit, which begins only after both checks have
\* ended with fail = 0.  st is the apply as it returns, cand the call after
\* the candidate context is built, chk the call after the two checks.
Gated(st, cand, chk) ==
    /\ \E n \in 0..Len(PhaseOrder) : Phases(st) = SubSeq(PhaseOrder, 1, n)
    /\ "removed" \in Range(st.phase) => Proceeds(cand)
    /\ "data" \in Range(st.phase) => Proceeds(CheckRemoved(cand))
    /\ "commit" \in Range(st.phase) => Proceeds(chk)
    /\ "commit" \notin Range(st.phase) =>
          /\ st.tree = persisted.tree
          /\ \A m \in Mods : /\ startup[m].ex => st.startup[m].ex
                             /\ running[m].ex => st.running[m].ex

C20_PhasesGated ==
    CanApply => \A io \in {"ok", "write"} :
        Gated(Applied(io),
              Candidate(ApplyStart(persisted.tree, startup, running)),
              Checked(Candidate(ApplyStart(persisted.tree, startup, running)), io))

C20_Witness ==
    /\ Succeeded
    /\ Phases(last) = PhaseOrder
    /\ sr_mods.tree # persisted.tree
    /\ \E m \in Mods : startup[m].ex

(* Properties of the candidate context and of the markers of one record. *)
\* module d has a record that is loaded as stored, or one that is updated
\* and comes after the entry at index i
LoadedLater(tree, i, d) ==
    \E j \in FindEntry(tree, "module", d) :
        \/ ~HasChild(tree[j], "removed") /\ ~HasChild(tree[j], "updated-yang")
        \/ HasChild(tree[j], "updated-yang") /\ j > i

\* C21: the dependencies of an updated module are checked against the
\* completed context: when the update step of an apply reports fail = 1,
\* some updated module depends on a module that neither has a record loaded
\* as stored nor is an updated module later in the registry.
UpdateFailsOnly(st) ==
    ("update" \in Range(st.phase) /\ "load" \notin Range(st.phase)
        /\ st.ret = "OK" /\ st.fail = 1)
    => \E i \in 1..Len(persisted.tree) :
          /\ HasChild(persisted.tree[i], "updated-yang")
          /\ \E d \in CondModules(persisted.tree[i].name,
                                  ChildVals(persisted.tree[i], "enabled-feature"))
                          \ {persisted.tree[i].name} :
                ~LoadedLater(persisted.tree, i, d)

C21_UpdateCheckedWhenComplete == CanApply => UpdateFailsOnly(Applied("ok"))


\* the records that carry a removal marker and feature-change markers
RemovedAndChanged(tree) ==
    {i \in 1..Len(tree) : /\ tree[i].k = "module"
                          /\ HasChild(tree[i], "removed")
                          /\ HasChild(tree[i], "changed-feature")}

\* after a successful apply: the record is gone, the module is not in the
\* candidate context and no record of that name carries a marker or a change
RemovalWins(tree, st) ==
    (st.ret = "OK" /\ st.fail = 0)
    => \A i \in RemovedAndChanged(tree) :
          /\ FindEntry(st.tree, "module", tree[i].name) = {}
          /\ st.ctx[tree[i].name].ver = NoVer

\* the registry trees a feature-change request makes of tree
AfterFeatureRequest(tree) ==
    UNION {{sr_lydmods_deferred_change_feature(tree, m, f, to_enable,
                                               IsEnabled(tree, m, f), ly_sorted).tree :
               f \in Features(m, InstalledVer(tree, m)), to_enable \in {0, 1}} :
           m \in {x \in Mods : Installed(tree, x)}}

\* C22: when a record carries both a removal marker and feature-change
\* markers and the apply succeeds, the removal wins: the record is dropped,
\* its feature changes are applied neither to the candidate context nor to
\* an enabled-feature list, and the commit does not process the
\* feature-change markers in place of the removal.  Checked for the
\* registry as stored and as one more feature-change request makes it.
C22_RemovalWins ==
    CanApply => \A tree \in {persisted.tree} \cup AfterFeatureRequest(persisted.tree) :
                   RemovalWins(tree, sr_lydmods_sched_apply(tree, startup, running, "ok",
                                                            ly_sorted))

\* the foreign modules the enabled nodes of m refer to with the features F
\* enabled: in a when or must expression or in the path of a leafref
RefModules(m, F) ==
    (CondModules(m, F)
        \cup {ModuleOf(a) : a \in UNION {UNION {Range(t.atoms) : t \in Range(Types(n))} :
                                            n \in Range(Dfs(Roots(m), F))}}) \ {m}

\* after a built apply every record has one data-deps container that names
\* the modules its schema refers to in the candidate context, and the
\* inverse dependencies of a record are the records that refer to it
DepsFromCandidate(st) ==
    Built(st) => \A i \in 1..Len(st.tree) :
        LET e == st.tree[i]
        IN /\ Cardinality(ChildIdx(e, "data-deps")) = 1
           /\ ForwardRefs(e) = RefModules(e.name, st.ctx[e.name].feats)
           /\ Unique(e.ch, "inverse-data-deps")
           /\ ChildVals(e, "inverse-data-deps") =
                  {st.tree[a].name : a \in {b \in 1..Len(st.tree) :
                      e.name \in RefModules(st.tree[b].name, st.ctx[st.tree[b].name].feats)}}

\* C23: after a successful apply with change = 1 the dependency data of
\* every surviving record is what is derived from the candidate context:
\* what was stored before is wiped before the rebuild, also for a record
\* whose feature-change markers are folded in this apply, so that enabling a
\* feature that guards a reference to a module makes it a forward
\* dependency, and no stale or doubled container remains.
C23_DepsRebuilt == CanApply => DepsFromCandidate(Applied("ok"))

C23_Witness ==
    /\ CanApply
    /\ Built(Applied("ok"))
    /\ \E i \in 1..Len(persisted.tree) :
          /\ HasChild(persisted.tree[i], "changed-feature")
          /\ HasChild(persisted.tree[i], "data-deps")
          /\ \E j \in FindEntry(Applied("ok").tree, "module", persisted.tree[i].name) :
                ForwardRefs(Applied("ok").tree[j]) # ForwardRefs(persisted.tree[i])


\* the enabled operations of module m with the features F enabled
Operations(m, F) == {n \in Range(Dfs(Roots(m), F)) : NodeType(n) \in Ops}
\* the modules the nodes of the operation o refer to
RefsInside(o, F) ==
    {ModuleOf(a) : a \in UNION {UNION {Range(c) : c \in Range(Conds(n))}
                                  \cup UNION {Range(t.atoms) : t \in Range(Types(n))} :
                                  n \in Range(Dfs(<<o>>, F))}} \ {ModuleOf(o)}
\* the modules the in and out lists of the op-deps node at k refer to
OpRefs(e, k) ==
    {e.ch[k].d[x].m : x \in 1..Len(e.ch[k].d)} \cup {e.ch[k].e[x].m : x \in 1..Len(e.ch[k].e)}

OpDepsPerOperation(st) ==
    Built(st) => \A i \in 1..Len(st.tree) :
        LET e == st.tree[i]
            F == st.ctx[e.name].feats
        IN \A o \in Operations(e.name, F) :
              /\ Cardinality({k \in ChildIdx(e, "op-deps") : e.ch[k].v = o}) = 1
              /\ \A k \in ChildIdx(e, "op-deps") :
                    e.ch[k].v = o => RefsInside(o, F) \subseteq OpRefs(e, k)

\* C24: for every RPC, action and notification of a module, the top-level
\* ones included, the build makes one op-deps record keyed by the path of
\* the operation, and what the nodes inside the operation refer to is
\* stored in the lists of that record.
C24_OpDepsPerOperation == CanApply => OpDepsPerOperation(Applied("ok"))


(***************************************************************************)
(* The traversal of one RPC or action as data_root, on its own: the        *)
(* operation carries any must expressions on its input and on its output,  *)
(* and it is traversed with the output flag 0 and then 1.                  *)
(***************************************************************************)
\* the must lists drawn: none, or one expression of one atom
MustLists == {<<>>} \cup {<< <<a>> >> : a \in SNodes}

InitMusts ==
    /\ persisted = [ok |-> TRUE, tree |-> <<>>]
    /\ startup = [m \in Mods |-> NoFile]
    /\ running = [m \in Mods |-> NoFile]
    /\ sr_mods = NotHeld
    /\ last = Idle
    /\ ly_sorted \in BOOLEAN
    /\ expr = NoExpr
    /\ callers = NoCallers
    /\ \E o \in {n \in SNodes : NodeType(n) \in {"rpc", "action"}} :
          \E i, u \in MustLists :
             walk = [NoWalk EXCEPT !.pc = "input", !.op = o, !.input = i, !.output = u]
    /\ daemon = NoDaemon
    /\ commit = NoCommit

\* case LYS_RPC / LYS_ACTION with elem = data_root: the must expressions
\* taken for the output flag
OpRootMusts(output, input_musts, output_musts) ==
    IF output # 0 THEN input_musts ELSE output_musts

\* sr_lydmods_add_data_deps_r for the node data_root = op itself: the
\* modules of the must expressions taken are added to sr_deps
OpRootDeps(sr_deps, op, output, input_musts, output_musts, sorted) ==
    AddDepMods(sr_deps,
               CondLoop(op, OpRootMusts(output, input_musts, output_musts), <<>>),
               sorted)

\* the traversal with the output flag 0 fills the input side
TraverseInput ==
    /\ walk.pc = "input"
    /\ walk' = [walk EXCEPT !.pc = "output",
                            !.in = OpRootDeps(<<>>, walk.op, 0, walk.input, walk.output,
                                              ly_sorted)]
    /\ UNCHANGED <<persisted, startup, running, sr_mods, last, ly_sorted, expr, callers,
                   daemon, commit>>

\* the traversal with the output flag 1 fills the output side
TraverseOutput ==
    /\ walk.pc = "output"
    /\ walk' = [walk EXCEPT !.pc = "done",
                            !.out = OpRootDeps(<<>>, walk.op, 1, walk.input, walk.output,
                                               ly_sorted)]
    /\ UNCHANGED <<persisted, startup, running, sr_mods, last, ly_sorted, expr, callers,
                   daemon, commit>>

NextMusts == TraverseInput \/ TraverseOutput

SpecMusts == InitMusts /\ [][NextMusts]_vars

\* the modules the atoms of must expressions name, and the foreign ones
AtomModules(musts) == {ModuleOf(a) : a \in UNION {Range(c) : c \in Range(musts)}}
MustModules(musts) == AtomModules(musts) \ {ModuleOf(walk.op)}
Recorded(deps) == {deps[x].m : x \in 1..Len(deps)}

\* C25: with an RPC or action as the root of the traversal, the traversal
\* of the input side (output flag 0) takes the must expressions of the
\* input and that of the output side (flag 1) those of the output, so a
\* foreign module that only a must of the input names is recorded on the
\* input side.
C25_MustsBySide ==
    walk.pc = "done" =>
        /\ MustModules(walk.input) \subseteq Recorded(walk.in)
        /\ Recorded(walk.in) \subseteq AtomModules(walk.input)
        /\ MustModules(walk.output) \subseteq Recorded(walk.out)
        /\ Recorded(walk.out) \subseteq AtomModules(walk.output)


(* Properties of the feature-change requests. *)
\* the changes scheduled for feature f of module m
ScheduledChanges(tree, m, f) ==
    {tree[ik[1]].ch[ik[2]].w : ik \in ChangedFeature(tree, m, f)}
Requested(to_enable) == IF to_enable = 1 THEN "enable" ELSE "disable"

\* the request for feature f of m is one to refuse
AlreadySo(tree, m, f, to_enable, is_enabled) ==
    \/ Requested(to_enable) \in ScheduledChanges(tree, m, f)
    \/ ScheduledChanges(tree, m, f) = {} /\ to_enable = is_enabled

FeatureRequest(tree, m, f, to_enable, is_enabled) ==
    LET r == sr_lydmods_deferred_change_feature(tree, m, f, to_enable, is_enabled, ly_sorted)
    IN IF AlreadySo(tree, m, f, to_enable, is_enabled)
       THEN /\ r.ret = "EXISTS"
            /\ \A io \in IOs : Finish(r, io) = [ret |-> "EXISTS", file |-> persisted]
       ELSE /\ r.ret = "OK"
            /\ Finish(r, "ok").ret = "OK"
            /\ Finish(r, "ok").file.tree # tree

\* C26: a feature-change request is refused with "exists", and the registry
\* file is left as it is, exactly when the change requested is the one
\* already scheduled for the feature, or none is scheduled and the state
\* requested is the current state of the feature; every other request
\* succeeds.
C26_FeatureRequestRefused ==
    (persisted.ok /\ ~sr_mods.held) =>
        \A m \in Mods : Installed(persisted.tree, m) =>
            \A f \in Features(m, InstalledVer(persisted.tree, m)), to_enable \in {0, 1} :
                FeatureRequest(persisted.tree, m, f, to_enable,
                               IsEnabled(persisted.tree, m, f))

C26_Witness ==
    /\ persisted.ok /\ ~sr_mods.held
    /\ \E m \in Mods : /\ Installed(persisted.tree, m)
                       /\ \E f \in Features(m, InstalledVer(persisted.tree, m)) :
                             /\ ScheduledChanges(persisted.tree, m, f) = {"disable"}
                             /\ IsEnabled(persisted.tree, m, f) = 1


\* the request and then the opposite request for feature f of m, which is
\* in the state is_enabled throughout: nothing is scheduled before
ThereAndBack(tree, m, f, to_enable, is_enabled) ==
    LET there == sr_lydmods_deferred_change_feature(tree, m, f, to_enable, is_enabled,
                                                    ly_sorted)
        back == sr_lydmods_deferred_change_feature(there.tree, m, f, 1 - to_enable,
                                                   is_enabled, ly_sorted)
    IN (ScheduledChanges(tree, m, f) = {} /\ to_enable # is_enabled) =>
          /\ there.ret = "OK"
          /\ ScheduledChanges(there.tree, m, f) = {Requested(to_enable)}
          /\ back.ret = "OK"
          /\ back.tree = tree

\* the opposite of the scheduled change takes the marker away
OppositeUnschedules(tree, m, f, is_enabled) ==
    \A w \in {0, 1} :
        ScheduledChanges(tree, m, f) = {Requested(w)} =>
            LET r == sr_lydmods_deferred_change_feature(tree, m, f, 1 - w, is_enabled,
                                                        ly_sorted)
            IN /\ r.ret = "OK"
               /\ ChangedFeature(r.tree, m, f) = {}
               /\ Finish(r, "ok").file.tree = r.tree

\* C27: a record holds at most one feature-change marker per feature;
\* requesting the opposite of a scheduled change takes the marker away, and
\* a request followed by the opposite request gives the record its previous
\* content back.
C27_OneMarkerPerFeature ==
    (persisted.ok /\ ~sr_mods.held) =>
        \A m \in Mods : Installed(persisted.tree, m) =>
            \A f \in Features(m, InstalledVer(persisted.tree, m)) :
                /\ Cardinality(ChangedFeature(persisted.tree, m, f)) <= 1
                /\ OppositeUnschedules(persisted.tree, m, f, IsEnabled(persisted.tree, m, f))
                /\ \A to_enable \in {0, 1} :
                      ThereAndBack(persisted.tree, m, f, to_enable,
                                   IsEnabled(persisted.tree, m, f))

C27_Witness ==
    /\ persisted.ok /\ ~sr_mods.held
    /\ \E m \in Mods : /\ Installed(persisted.tree, m)
                       /\ \E f \in Features(m, InstalledVer(persisted.tree, m)) :
                             /\ ScheduledChanges(persisted.tree, m, f) = {"enable"}
                             /\ IsEnabled(persisted.tree, m, f) = 0
    /\ \E i \in 1..Len(persisted.tree) : HasChild(persisted.tree[i], "inverse-data-deps")


\* the features of record e scheduled to change to w
Changing(e, w) ==
    {e.ch[k].v : k \in {j \in ChildIdx(e, "changed-feature") : e.ch[j].w = w}}

\* the record new is the record old with its feature changes folded in
Folded(old, new) ==
    /\ ChildVals(new, "enabled-feature") =
           (ChildVals(old, "enabled-feature") \cup Changing(old, "enable"))
               \ Changing(old, "disable")
    /\ Unique(new.ch, "enabled-feature")
    /\ \A f \in Changing(old, "disable") :
          Cardinality({k \in ChildIdx(old, "enabled-feature") : old.ch[k].v = f}) = 1
    /\ ~HasChild(new, "changed-feature")

\* the commit drops the record e: its first marker is the removal
Dropped(e) ==
    \E k \in ChildIdx(e, "removed") : \A j \in 1..(k - 1) : ~IsMarker(e.ch[j].t)

FeaturesFolded(tree, st) ==
    Built(st) => \A i \in 1..Len(tree) :
        (tree[i].k = "module" /\ HasChild(tree[i], "changed-feature") /\ ~Dropped(tree[i])) =>
            \A j \in FindEntry(st.tree, "module", tree[i].name) : Folded(tree[i], st.tree[j])

\* C28: after a successful apply, the enabled-feature list of every
\* surviving record that carried feature-change markers is the previous
\* list with the features to enable added and those to disable taken out,
\* no feature is listed twice, every feature to disable was listed once
\* before, and no feature-change marker remains.
C28_FeaturesFolded == CanApply => FeaturesFolded(persisted.tree, Applied("ok"))

C28_Witness ==
    /\ CanApply
    /\ Built(Applied("ok"))
    /\ \E i \in 1..Len(persisted.tree) :
          /\ persisted.tree[i].k = "module"
          /\ Changing(persisted.tree[i], "disable") # {}
          /\ ~Dropped(persisted.tree[i])
          /\ FindEntry(Applied("ok").tree, "module", persisted.tree[i].name) # {}


(* Properties of unscheduling a removal. *)
\* the installed modules m reaches through imports, in n steps at most
RECURSIVE ImportChain(_, _, _)
ImportChain(tree, ms, n) ==
    IF n = 0 THEN ms
    ELSE ImportChain(tree,
             ms \cup {i \in Mods : Installed(tree, i) /\
                        \E x \in ms : Installed(tree, x) /\
                            i \in Range(Imports(x, InstalledVer(tree, x)))},
             n - 1)

UnschedDel(tree, m) ==
    LET r == sr_lydmods_unsched_del_module_with_imps(tree, m)
    IN IF WithChild(tree, m, "removed") = {}
       THEN /\ r.ret = "NOT_FOUND"
            /\ \A io \in IOs : Finish(r, io) = [ret |-> "NOT_FOUND", file |-> persisted]
       ELSE /\ r.ret = "OK"
            /\ \A x \in ImportChain(tree, {m}, Cardinality(Mods)) :
                  WithChild(r.tree, x, "removed") = {}
            /\ r.tree = [i \in 1..Len(tree) |->
                             [tree[i] EXCEPT !.ch = SelectSeq(@, LAMBDA c :
                                 ~(c.t = "removed" /\ tree[i].name \in
                                     ImportChain(tree, {m}, Cardinality(Mods))))]]

\* C29: unscheduling the removal of a module with its imports fails with
\* "not found", the registry file left as it is, exactly when the module
\* carries no removal marker; when it succeeds neither the module nor a
\* module it reaches through implemented imports carries a removal marker,
\* and a module of the chain that carries none causes no error.
C29_UnschedDelWithImports ==
    (persisted.ok /\ ~sr_mods.held) =>
        \A m \in Mods : Installed(persisted.tree, m) => UnschedDel(persisted.tree, m)

C29_Witness ==
    /\ persisted.ok /\ ~sr_mods.held
    /\ \E m \in Mods :
          /\ WithChild(persisted.tree, m, "removed") # {}
          /\ \E x \in ImportChain(persisted.tree, {m}, Cardinality(Mods)) \ {m} :
                WithChild(persisted.tree, x, "removed") = {}
    /\ \E m \in Mods :
          /\ WithChild(persisted.tree, m, "removed") = {}
          /\ Installed(persisted.tree, m)


(* The frame of the Schedule Manager operations. *)
\* the names of the module records of a tree, in order
RecordNames(tree) ==
    LET recs == SelectSeq(tree, LAMBDA e : e.k = "module")
    IN [i \in 1..Len(recs) |-> recs[i].name]

\* what scheduling and unscheduling a removal, an update or a feature
\* change for module m store, the store itself going well
MarkerCalls(tree, m) ==
    {sr_lydmods_deferred_del_module(tree, m, ly_sorted),
     sr_lydmods_unsched_del_module_with_imps(tree, m),
     sr_lydmods_deferred_upd_module(tree, m, "v2", ly_sorted),
     sr_lydmods_unsched_upd_module(tree, m)}
    \cup {sr_lydmods_deferred_change_feature(tree, m, f, to_enable, is_enabled, ly_sorted) :
             f \in Features(m, "v1"), to_enable \in {0, 1}, is_enabled \in {0, 1}}

\* C30: the Schedule Manager operations only add and take away markers and
\* staged entries: scheduling or unscheduling a removal, an update or a
\* feature change creates and deletes no module record, also when the
\* module named has no record, so the names of the module records stay the
\* same.
C30_RecordsKept ==
    (persisted.ok /\ ~sr_mods.held) =>
        \A m \in Mods : \A r \in MarkerCalls(persisted.tree, m) :
            RecordNames(Finish(r, "ok").file.tree) = RecordNames(persisted.tree)


(* Properties of the commit of staged entries and of updated records. *)
\* the modules the staged entries of tree bring in: the staged ones and
\* what they make implemented through imports in the context ctx
PulledIn(tree, ctx) ==
    StagedNames(tree)
        \cup {i \in Mods : ctx[i].ver # NoVer /\ ctx[i].impl /\
                \E m \in StagedNames(tree) : i \in Range(Imports(m, ctx[m].ver))}

OneRecordEach(tree, st) ==
    Built(st) =>
        /\ \A m \in PulledIn(tree, st.ctx) :
              Cardinality(FindEntry(st.tree, "module", m)) = 1
        /\ \A i, j \in 1..Len(st.tree) : st.tree[i].name = st.tree[j].name => i = j
        /\ \A i \in 1..Len(st.tree) : st.tree[i].k = "module"

\* C31: when a successful apply commits several staged entries, in any
\* order and also when one imports the other as an implemented module,
\* every staged module and every implemented import it pulls in ends up
\* with exactly one module record; no module record is created twice and no
\* staged entry is left.
C31_OneRecordPerInstall == CanApply => OneRecordEach(persisted.tree, Applied("ok"))

C31_Witness ==
    /\ CanApply
    /\ Built(Applied("ok"))
    /\ Len(persisted.tree) = 2
    /\ persisted.tree[1].k = "installed-module" /\ persisted.tree[1].name = "B"
    /\ persisted.tree[2].k = "installed-module" /\ persisted.tree[2].name = "A"
    /\ Applied("ok").ctx["B"].impl


\* the commit takes the record e as an updated one: its first marker is
\* updated-yang
Updated(e) ==
    \E k \in ChildIdx(e, "updated-yang") : \A j \in 1..(k - 1) : ~IsMarker(e.ch[j].t)

\* the record new is a fresh record of its module in the context ctx
FreshRecord(new, ctx) ==
    /\ \A k \in 1..Len(new.ch) :
          new.ch[k].t \in {"revision", "enabled-feature", "data-deps", "op-deps",
                           "inverse-data-deps"}
    /\ RevisionOf(new) = ctx[new.name].ver
    /\ ChildVals(new, "enabled-feature") = ctx[new.name].feats
    /\ Unique(new.ch, "enabled-feature")

UpdateCommitted(tree, st) ==
    Built(st) => \A i \in 1..Len(tree) :
        (tree[i].k = "module" /\ Updated(tree[i])) =>
            /\ Cardinality(FindEntry(st.tree, "module", tree[i].name)) = 1
            /\ \A j \in FindEntry(st.tree, "module", tree[i].name) :
                  FreshRecord(st.tree[j], st.ctx)
            /\ startup[tree[i].name].ex => st.startup[tree[i].name].ex
            /\ running[tree[i].name].ex => st.running[tree[i].name].ex

\* C32: when an updated module is committed its old record is removed and
\* a fresh one is inserted through the install path: the new record has no
\* updated marker, its enabled-feature list is what is enabled for the
\* module in the candidate context, nothing else of the old record is
\* carried over, and the startup and running files of the module are not
\* deleted by the update.
C32_UpdateCommitted == CanApply => UpdateCommitted(persisted.tree, Applied("ok"))

C32_Witness ==
    /\ CanApply
    /\ Built(Applied("ok"))
    /\ \E i \in 1..Len(persisted.tree) :
          /\ persisted.tree[i].k = "module" /\ Updated(persisted.tree[i])
          /\ HasChild(persisted.tree[i], "enabled-feature")
          /\ startup[persisted.tree[i].name].ex


\* C33: a successful apply with change = 1 ends by persisting the whole
\* registry: when sr_lydmods_sched_apply has returned with change = 1 and
\* fail = 0, the registry file holds the committed tree, the caller making
\* no further call.
C33_AppliedIsPersisted ==
    Succeeded => (persisted.ok /\ persisted.tree = sr_mods.tree)


(***************************************************************************)
(* The apply of one scheduled entry whose text is any revision, also one   *)
(* the schema engine cannot load: the registry holds the modules of an     *)
(* earlier installation and one staged entry or one updated-yang marker.   *)
(***************************************************************************)
\* the revisions a stored module text may name
Texts == {"v1", "v2"}

\* the registry and the files after the staged entries of ms, each at
\* revision v1, are applied to an empty registry; [tree, startup, running]
RECURSIVE Staged(_, _, _)
Staged(tree, ms, sorted) ==
    IF ms = <<>> THEN tree
    ELSE Staged(sr_lydmods_deferred_add_module(tree, Head(ms), "v1", <<>>, sorted).tree,
                Tail(ms), sorted)
Installed1(ms, sorted) ==
    sr_lydmods_sched_apply(Staged(<<>>, ms, sorted), [m \in Mods |-> NoFile],
                           [m \in Mods |-> NoFile], "ok", sorted)
\* and the same with A updated to v2 afterwards
Installed2(sorted) ==
    sr_lydmods_sched_apply(
        sr_lydmods_deferred_upd_module(Installed1(<<"A">>, sorted).tree, "A", "v2", sorted).tree,
        Installed1(<<"A">>, sorted).startup, Installed1(<<"A">>, sorted).running, "ok", sorted)
Bases(sorted) ==
    {Installed1(ms, sorted) : ms \in {<<>>, <<"B">>, <<"A">>}} \cup {Installed2(sorted)}

\* one entry scheduled on the registry base
Schedules(base, sorted) ==
    {sr_lydmods_deferred_add_module(base, m, v, <<>>, sorted).tree : m \in Mods, v \in Texts}
    \cup UNION {{sr_lydmods_deferred_upd_module(base, m, v, sorted).tree : v \in Texts} :
                  m \in {x \in Mods : Installed(base, x)}}

InitLoad ==
    /\ ly_sorted \in BOOLEAN
    /\ \E base \in Bases(ly_sorted) :
          /\ startup = base.startup
          /\ running = base.running
          /\ \E sched \in Schedules(base.tree, ly_sorted) :
                persisted = [ok |-> TRUE, tree |-> sched]
    /\ sr_mods = NotHeld
    /\ last = Idle
    /\ expr = NoExpr
    /\ callers = NoCallers
    /\ walk = NoWalk
    /\ daemon = NoDaemon
    /\ commit = NoCommit

NextLoad == SchedApply \/ StoreHeld \/ FreeHeld

SpecLoad == InitLoad /\ [][NextLoad]_vars

\* the revision the record e is loaded with into the candidate context
LoadedVer(e) ==
    IF HasChild(e, "updated-yang") THEN e.ch[FirstIdx(ChildIdx(e, "updated-yang"))].v
    ELSE RevisionOf(e)

\* the text of the staged entry e cannot be loaded: there is no such
\* revision, or a record of the module is loaded with another one
StagedUnloadable(tree, e) ==
    /\ e.k = "installed-module" /\ HasChild(e, "module-yang")
    /\ LET v == e.ch[FirstIdx(ChildIdx(e, "module-yang"))].v
       IN \/ ~HasVer(e.name, v)
          \/ \E j \in FindEntry(tree, "module", e.name) :
                ~HasChild(tree[j], "removed") /\ LoadedVer(tree[j]) # v

\* the replacement text of the updated record e cannot be loaded
UpdateUnloadable(e) ==
    /\ e.k = "module" /\ HasChild(e, "updated-yang")
    /\ ~HasVer(e.name, LoadedVer(e))

LoadFailure(tree, st) ==
    /\ (\E i \in 1..Len(tree) : StagedUnloadable(tree, tree[i])) =>
          /\ st.ret = "OK" /\ st.fail = 1 /\ st.change = 0
          /\ st.tree = tree
          /\ st.startup = startup /\ st.running = running
    /\ (\E i \in 1..Len(tree) : UpdateUnloadable(tree[i])) =>
          /\ st.ret = "ERR"
          /\ st.tree = tree

\* C34: a staged entry whose text cannot be loaded into the candidate
\* context, for example because it clashes with a module loaded already,
\* makes the apply report fail = 1 without an error value and leaves the
\* registry, the staged entry included, as it is; an updated module whose
\* replacement text cannot be loaded makes the apply return an error value.
C34_LoadFailure == CanApply => LoadFailure(persisted.tree, Applied("ok"))

C34_Witness ==
    /\ Returned /\ last.ret = "OK" /\ last.fail = 1 /\ last.change = 0
    /\ sr_mods.tree = persisted.tree
    /\ \E i \in 1..Len(persisted.tree) :
          /\ StagedUnloadable(persisted.tree, persisted.tree[i])
          /\ HasVer(persisted.tree[i].name,
                    persisted.tree[i].ch[FirstIdx(ChildIdx(persisted.tree[i], "module-yang"))].v)


(***************************************************************************)
(* Replay support.  The start timestamp of a module is the time of its     *)
(* earliest stored notification or the current time; the search for the    *)
(* notification file may fail ("ERR").                                     *)
(***************************************************************************)
Stamps == {"10", "20"}

\* variant: enabling replaces the start timestamp of the module
ReplaySupportModuleRestart(e, replay_support, from_ts, sorted) ==
    LET rest == SelectSeq(e.ch, LAMBDA n : n.t # "replay-support")
    IN IF ~replay_support THEN [ret |-> "OK", e |-> [e EXCEPT !.ch = rest]]
       ELSE IF from_ts = "ERR" THEN [ret |-> "ERR", e |-> e]
       ELSE [ret |-> "OK",
             e |-> [e EXCEPT !.ch = InsertChild(rest, Node("replay-support", from_ts, ""),
                                                sorted)]]

\* sr_lydmods_update_replay_support_module, as [ret, e]
sr_lydmods_update_replay_support_module(e, replay_support, from_ts, sorted) ==
    LET sr_replay == ChildIdx(e, "replay-support")
    IN IF ~replay_support /\ sr_replay # {}
       THEN [ret |-> "OK", e |-> [e EXCEPT !.ch = RemoveAt(@, FirstIdx(sr_replay))]]
       ELSE IF replay_support /\ sr_replay = {}
       THEN IF from_ts = "ERR" THEN [ret |-> "ERR", e |-> e]
            ELSE [ret |-> "OK",
                  e |-> [e EXCEPT !.ch = InsertChild(@, Node("replay-support", from_ts, ""),
                                                     sorted)]]
       ELSE [ret |-> "OK", e |-> e]

\* the loop of sr_lydmods_update_replay_support over all children of the
\* registry, from the i-th on
RECURSIVE ReplayLoop(_, _, _, _, _)
ReplayLoop(tree, i, replay_support, from, sorted) ==
    IF i > Len(tree) THEN Result("OK", tree)
    ELSE IF tree[i].k # "module" THEN ReplayLoop(tree, i + 1, replay_support, from, sorted)
    ELSE LET r == sr_lydmods_update_replay_support_module(tree[i], replay_support,
                                                          from[tree[i].name], sorted)
         IN IF r.ret # "OK" THEN Result(r.ret, tree)
            ELSE ReplayLoop([tree EXCEPT ![i] = r.e], i + 1, replay_support, from, sorted)

\* sr_lydmods_update_replay_support on the parsed tree; mod_name is Null for
\* all modules, from gives the timestamp found for each module
sr_lydmods_update_replay_support(tree, mod_name, replay_support, from, sorted) ==
    IF mod_name # Null
    THEN IF FindEntry(tree, "module", mod_name) = {} THEN Result("ABORT", tree)
         ELSE LET i == FirstIdx(FindEntry(tree, "module", mod_name))
                  r == sr_lydmods_update_replay_support_module(tree[i], replay_support,
                                                               from[mod_name], sorted)
              IN IF r.ret # "OK" THEN Result(r.ret, tree)
                 ELSE Result("OK", [tree EXCEPT ![i] = r.e])
    ELSE ReplayLoop(tree, 1, replay_support, from, sorted)

UpdateReplaySupport ==
    \E mod_name \in Mods \cup {Null}, replay_support \in BOOLEAN,
       from \in [Mods -> Stamps \cup {"ERR"}] :
        /\ mod_name \in Mods \cup {Null}
        /\ Stored(sr_lydmods_update_replay_support(persisted.tree, mod_name, replay_support,
                                                   from, ly_sorted))

NextReplay == UpdateReplaySupport

SpecReplay == InitLoad /\ [][NextReplay]_vars

\* the toggle of one module or of all, with a timestamp found for each
Toggled(tree, mod_name, replay_support, from) ==
    sr_lydmods_update_replay_support(tree, mod_name, replay_support, from, ly_sorted)

\* the entry without its start timestamp
NoReplay(e) == [e EXCEPT !.ch = SelectSeq(@, LAMBDA n : n.t # "replay-support")]

\* the rule for one entry: old is the entry before the toggle, new after it
ReplayRule(old, new, replay_support, ts) ==
    /\ NoReplay(new) = NoReplay(old)
    /\ ChildVals(new, "replay-support") =
          IF ~replay_support THEN {}
          ELSE IF HasChild(old, "replay-support") THEN ChildVals(old, "replay-support")
          ELSE {ts}
    /\ Cardinality(ChildIdx(new, "replay-support")) <= 1

\* enabling where a timestamp is stored and disabling where none is change
\* nothing; the toggle of all modules follows the same rule in every module
\* record and leaves the staged entries as they are
ReplayToggle(tree) ==
    \A replay_support \in BOOLEAN, from \in [Mods -> Stamps] :
        /\ \A m \in Mods : FindEntry(tree, "module", m) # {} =>
              LET i == FirstIdx(FindEntry(tree, "module", m))
                  r == Toggled(tree, m, replay_support, from)
              IN /\ r.ret = "OK"
                 /\ HasChild(tree[i], "replay-support") = replay_support => r.tree = tree
                 /\ Len(r.tree) = Len(tree)
                 /\ \A j \in 1..Len(tree) :
                       IF j = i THEN ReplayRule(tree[j], r.tree[j], replay_support, from[m])
                       ELSE r.tree[j] = tree[j]
        /\ LET r == Toggled(tree, Null, replay_support, from)
           IN /\ r.ret = "OK"
              /\ Len(r.tree) = Len(tree)
              /\ \A j \in 1..Len(tree) :
                    IF tree[j].k = "module"
                    THEN ReplayRule(tree[j], r.tree[j], replay_support, from[tree[j].name])
                    ELSE r.tree[j] = tree[j]

\* enabling and then disabling gives the record back when it had no
\* timestamp before
ThereAndBackReplay(tree, stamped) ==
    \A from \in [Mods -> Stamps], m \in Mods :
        (/\ FindEntry(tree, "module", m) # {}
         /\ (stamped \/ ~HasChild(tree[FirstIdx(FindEntry(tree, "module", m))], "replay-support")))
            => Toggled(Toggled(tree, m, TRUE, from).tree, m, FALSE, from).tree = tree

\* C35 as stated: enabling where a timestamp is stored leaves it, disabling
\* where none is stored changes nothing, a toggle without a module name
\* follows the rule in every module record and in no staged entry, and
\* enabling then disabling returns every record to its prior content.
C35_Original == persisted.ok => (ReplayToggle(persisted.tree) /\ ThereAndBackReplay(persisted.tree, TRUE))

\* C35: the same, where enabling then disabling returns the record to its
\* prior content when the record had no start timestamp before.
C35_ReplayToggle == persisted.ok => (ReplayToggle(persisted.tree) /\ ThereAndBackReplay(persisted.tree, FALSE))

C35_Witness ==
    /\ persisted.ok
    /\ \E i, j, k \in 1..Len(persisted.tree) :
          /\ persisted.tree[i].k = "module" /\ HasChild(persisted.tree[i], "replay-support")
          /\ persisted.tree[j].k = "module" /\ ~HasChild(persisted.tree[j], "replay-support")
          /\ persisted.tree[k].k = "installed-module"


(***************************************************************************)
(* The plugin daemon (sysrepo-plugind.c).  main loads the plugins of the   *)
(* plugins directory, installs the signal handlers, connects, starts a     *)
(* session, initializes the plugins, waits under the mutex lock for the    *)
(* flag loop_finish and cleans the plugins up.  signal_handler runs on the *)
(* thread the signal is delivered to; on the main thread it suspends main  *)
(* until it returns.                                                       *)
(***************************************************************************)
MaxPlugins == 2
MaxSignals == 2

\* the entries readdir yields: a plugin that opens and has both callbacks
\* ("ok") or one that does not ("bad")
Dirs == UNION {[1..n -> {"ok", "bad"}] : n \in 0..MaxPlugins}

others == <<persisted, startup, running, sr_mods, last, ly_sorted, expr, callers, walk, commit>>

InitDaemon ==
    /\ persisted = [ok |-> TRUE, tree |-> <<>>]
    /\ startup = [m \in Mods |-> NoFile]
    /\ running = [m \in Mods |-> NoFile]
    /\ sr_mods = NotHeld
    /\ last = Idle
    /\ ly_sorted = TRUE
    /\ expr = NoExpr
    /\ callers = NoCallers
    /\ walk = NoWalk
    /\ \E dir \in Dirs : daemon = [NoDaemon EXCEPT !.pc = "load", !.dir = dir]
    /\ commit = NoCommit

\* load_plugins: the plugins before the first one that fails are stored;
\* opened is whether the directory could be opened
load_plugins(dir, opened) ==
    LET bad == {k \in 1..Len(dir) : dir[k] = "bad"}
    IN IF ~opened THEN [rc |-> -1, plugin_count |-> 0]
       ELSE IF bad = {} THEN [rc |-> 0, plugin_count |-> Len(dir)]
       ELSE [rc |-> -1, plugin_count |-> FirstIdx(bad) - 1]

\* main runs unless the process has ended or a handler runs on its thread
MainAt(pc) == daemon.pc = pc /\ daemon.on # "main"

MainLoadPlugins ==
    /\ MainAt("load")
    /\ \E opened \in BOOLEAN :
          LET r == load_plugins(daemon.dir, opened)
          IN daemon' = [daemon EXCEPT !.rc_load = r.rc, !.plugin_count = r.plugin_count,
                                      !.pc = IF r.rc # 0 THEN "dlclose" ELSE "daemon_init"]
    /\ UNCHANGED others

\* daemon_init: handle_signals, or exit when the process cannot be set up
MainDaemonInit ==
    /\ MainAt("daemon_init")
    /\ \E ok \in BOOLEAN :
          daemon' = IF ok THEN [daemon EXCEPT !.handlers = TRUE, !.pc = "connect"]
                    ELSE [daemon EXCEPT !.pc = "exit"]
    /\ UNCHANGED others

MainConnect ==
    /\ MainAt("connect")
    /\ \E r \in {"OK", "ERR"} :
          daemon' = [daemon EXCEPT !.pc = IF r = "OK" THEN "session" ELSE "dlclose"]
    /\ UNCHANGED others

MainSessionStart ==
    /\ MainAt("session")
    /\ \E r \in {"OK", "ERR"} :
          daemon' = IF r = "OK" THEN [daemon EXCEPT !.sess = TRUE, !.i = 0, !.pc = "init"]
                    ELSE [daemon EXCEPT !.pc = "dlclose"]
    /\ UNCHANGED others

\* one round of the loop over init_cb
MainInitPlugin ==
    /\ MainAt("init")
    /\ IF daemon.i < daemon.plugin_count
       THEN \E r \in {"OK", "ERR"} :
               daemon' = [daemon EXCEPT !.inits = Append(@, [plugin |-> daemon.i, r |-> r]),
                                        !.i = IF r = "OK" THEN @ + 1 ELSE @,
                                        !.pc = IF r = "OK" THEN @ ELSE "dlclose"]
       ELSE daemon' = [daemon EXCEPT !.pc = "lock"]
    /\ UNCHANGED others

\* pthread_mutex_lock(&lock) of main
MainLock ==
    /\ MainAt("lock")
    /\ daemon.lock = "free"
    /\ daemon' = [daemon EXCEPT !.lock = "main", !.pc = "test"]
    /\ UNCHANGED others

\* variant: main does not wait for the flag
MainTestNoWait ==
    /\ MainAt("test")
    /\ daemon' = [daemon EXCEPT !.pc = "unlock"]
    /\ UNCHANGED others

\* while (!loop_finish) pthread_cond_wait(&cond, &lock): the wait releases
\* the mutex
MainTest ==
    /\ MainAt("test")
    /\ daemon' = IF daemon.loop_finish # 0 THEN [daemon EXCEPT !.pc = "unlock"]
                 ELSE [daemon EXCEPT !.pc = "wait", !.lock = "free"]
    /\ UNCHANGED others

\* the condition was signalled: the wait ends and takes the mutex again
MainWake ==
    /\ MainAt("wait")
    /\ daemon.notified
    /\ daemon' = [daemon EXCEPT !.notified = FALSE, !.pc = "wake"]
    /\ UNCHANGED others

MainRelock ==
    /\ MainAt("wake")
    /\ daemon.lock = "free"
    /\ daemon' = [daemon EXCEPT !.lock = "main", !.pc = "test"]
    /\ UNCHANGED others

MainUnlock ==
    /\ MainAt("unlock")
    /\ daemon' = [daemon EXCEPT !.lock = "free", !.i = 0, !.pc = "cleanup"]
    /\ UNCHANGED others

\* one round of the loop over cleanup_cb
MainCleanupPlugin ==
    /\ MainAt("cleanup")
    /\ daemon' = IF daemon.i < daemon.plugin_count
                 THEN [daemon EXCEPT !.cleanups = Append(@, daemon.i), !.i = @ + 1]
                 ELSE [daemon EXCEPT !.rc = "EXIT_SUCCESS", !.pc = "dlclose"]
    /\ UNCHANGED others

\* cleanup: dlclose of the plugins, sr_disconnect, return rc
MainClose ==
    /\ MainAt("dlclose")
    /\ daemon' = [daemon EXCEPT !.pc = "done"]
    /\ UNCHANGED others

\* the threads a signal can be delivered to: main, and the threads the
\* initialized plugins have started
Threads == {"main"} \cup (IF daemon.inits # <<>> THEN {"other"} ELSE {})

\* a terminating signal is delivered and signal_handler is entered
Signal ==
    /\ daemon.handlers /\ daemon.pc \notin {"done", "exit"}
    /\ daemon.handler = "none"
    /\ daemon.signals < MaxSignals
    /\ \E t \in Threads :
          daemon' = [daemon EXCEPT !.handler = "lock", !.on = t, !.signals = @ + 1]
    /\ UNCHANGED others

\* pthread_mutex_lock(&lock) of signal_handler
HandlerLock ==
    /\ daemon.handler = "lock" /\ daemon.pc # "exit"
    /\ daemon.lock = "free"
    /\ daemon' = [daemon EXCEPT !.lock = "handler", !.handler = "locked"]
    /\ UNCHANGED others

\* the rest of signal_handler: the first attempt sets the flag and signals
\* the condition, the second one exits
HandlerFinish ==
    /\ daemon.handler = "locked"
    /\ daemon' = IF daemon.loop_finish = 0
                 THEN [daemon EXCEPT !.loop_finish = 1,
                                     !.notified = @ \/ daemon.pc = "wait",
                                     !.lock = "free", !.handler = "none", !.on = "none"]
                 ELSE [daemon EXCEPT !.pc = "exit", !.handler = "none", !.on = "none"]
    /\ UNCHANGED others

MainNext ==
    \/ MainLoadPlugins \/ MainDaemonInit \/ MainConnect \/ MainSessionStart
    \/ MainInitPlugin \/ MainLock \/ MainTest \/ MainWake \/ MainRelock \/ MainUnlock
    \/ MainCleanupPlugin \/ MainClose

HandlerNext == HandlerLock \/ HandlerFinish

NextDaemon == MainNext \/ Signal \/ HandlerNext

SpecDaemon == InitDaemon /\ [][NextDaemon]_vars

\* a thread that can take a step takes one, a handler that can go on does
SpecDaemonLive == SpecDaemon /\ WF_vars(MainNext) /\ WF_vars(HandlerNext)

\* C36: a cleanup callback is invoked only after the init of every loaded
\* plugin has returned success and a terminating signal was received; the
\* cleanups are invoked in load order, each once; no init is invoked when
\* the load of a plugin failed or before the session exists.
C36_CallbackOrder ==
    /\ daemon.cleanups # <<>> =>
          /\ daemon.signals >= 1 /\ daemon.loop_finish = 1
          /\ Len(daemon.inits) = daemon.plugin_count
          /\ \A k \in 1..Len(daemon.inits) :
                daemon.inits[k].plugin = k - 1 /\ daemon.inits[k].r = "OK"
    /\ Len(daemon.cleanups) <= daemon.plugin_count
    /\ \A k \in 1..Len(daemon.cleanups) : daemon.cleanups[k] = k - 1
    /\ (daemon.pc = "done" /\ daemon.rc = "EXIT_SUCCESS") =>
          Len(daemon.cleanups) = daemon.plugin_count
    /\ daemon.inits # <<>> =>
          /\ daemon.sess
          /\ daemon.rc_load = 0 /\ \A k \in 1..Len(daemon.dir) : daemon.dir[k] = "ok"

C36_Witness ==
    /\ daemon.pc = "done" /\ daemon.rc = "EXIT_SUCCESS"
    /\ daemon.cleanups = <<0, 1>>

\* C37: the first terminating signal delivered after the handlers are
\* installed makes main leave its wait loop and reach the cleanup, unless a
\* second signal ends the process, and signal_handler gets the mutex it
\* waits for.
C37_SignalEndsWait ==
    /\ (daemon.signals >= 1) ~> (daemon.pc \in {"cleanup", "dlclose", "done"} \/ daemon.signals >= 2)
    /\ (daemon.handler = "lock") ~> (daemon.handler # "lock")


\* the apply as it stands when the rebuild of the dependencies begins
RebuildStart(io) ==
    Commit(UpdateData(CheckRemoved(InstallModules(ChangeFeatures(LoadModules(UpdateModules(
        ApplyStart(persisted.tree, startup, running)))))), io), ly_sorted)

SurvivorsImplemented(st) ==
    (~Stop(st) /\ st.change = 1) =>
        \A i \in 1..Len(st.tree) : CtxImplemented(st.ctx, st.tree[i].name)

\* C38: when the rebuild of the dependencies of an apply begins, every
\* module record the commit has left names a module that is implemented in
\* the candidate context (the assert of the rebuild loop holds), whatever
\* removals, updates, feature changes and installs have passed the checks.
C38_SurvivorsImplemented == CanApply => SurvivorsImplemented(RebuildStart("ok"))

C38_Witness ==
    /\ CanApply
    /\ ~Stop(RebuildStart("ok")) /\ RebuildStart("ok").change = 1
    /\ RebuildStart("ok").tree # <<>>
    /\ \E i, j \in 1..Len(persisted.tree) :
          /\ i # j
          /\ HasChild(persisted.tree[i], "removed")
          /\ \/ persisted.tree[j].k = "installed-module"
             \/ HasChild(persisted.tree[j], "updated-yang")
             \/ HasChild(persisted.tree[j], "changed-feature")

\* the step at which the apply has ended
LastPhase(st) == IF st.phase = <<>> THEN "" ELSE st.phase[Len(st.phase)]

\* C39: in the computation of the inverse dependencies of an apply every
\* module a forward dependency of a record names has exactly one module
\* record (the assert set2->count == 1 holds).
C39_DependencyHasRecord ==
    CanApply => ~(Applied("ok").ret = "ABORT" /\ LastPhase(Applied("ok")) = "assert set2")

(***************************************************************************)
(* The commit phase step by step (lyd_mods.c 2008-2047): one step handles  *)
(* one entry of the registry, the entry after it taken before (the loop is *)
(* LY_LIST_FOR_SAFE).  The recursions sr_lydmods_add_module_with_imps_r    *)
(* and sr_lydmods_unsched_del_module_r run call by call on a stack of      *)
(* frames over an import graph of MaxNodes modules; the modules of the     *)
(* library have no submodules, so the loop over the includes is empty.     *)
(***************************************************************************)
MaxNodes == 3
Nodes == 1..MaxNodes
MaxDepth == MaxNodes + 1

rest == <<persisted, startup, running, sr_mods, last, ly_sorted, expr, callers, walk, daemon>>

\* the modules reached from the modules of S over at most k imports
RECURSIVE Reach(_, _, _)
Reach(g, S, k) ==
    IF k = 0 THEN S ELSE Reach(g, S \cup UNION {g[n] : n \in S}, k - 1)

\* no module imports itself, directly or over other modules
Acyclic(g) == \A n \in Nodes : n \notin Reach(g, g[n], MaxNodes)

\* ly_mod->parsed->imports of every module of a context
Graphs == {g \in [Nodes -> SUBSET Nodes] : Acyclic(g)}

\* the state the commit starts with: the contexts are built, the removals
\* checked and the data files updated
CommitStart(io) ==
    UpdateData(CheckRemoved(Candidate(ApplyStart(persisted.tree, startup, running))), io)

InitCommit ==
    /\ ly_sorted \in BOOLEAN
    /\ sr_mods = NotHeld
    /\ last = Idle
    /\ expr = NoExpr
    /\ callers = NoCallers
    /\ walk = NoWalk
    /\ daemon = NoDaemon
    /\ \/ /\ \E base \in Bases(ly_sorted) :
                /\ startup = base.startup
                /\ running = base.running
                /\ persisted = [ok |-> TRUE, tree |-> base.tree]
          /\ commit = [NoCommit EXCEPT !.pc = "idle"]
       \/ /\ startup = [m \in Mods |-> NoFile]
          /\ running = [m \in Mods |-> NoFile]
          /\ persisted = [ok |-> TRUE, tree |-> <<>>]
          /\ \E g \in Graphs, impl \in SUBSET Nodes, recs \in SUBSET Nodes, m \in Nodes,
                 fn \in {"add", "unsched"} :
                commit = [NoCommit EXCEPT !.pc = fn, !.graph = [n \in Nodes |-> SetToSeq(g[n])],
                                          !.impl = impl, !.recs = recs,
                                          !.stack = <<[mod |-> m, u |-> 0, first |-> 1]>>]

\* the Schedule Manager calls between two applies
ScheduleAdd == commit.pc = "idle" /\ DeferredAddModule
ScheduleDel == commit.pc = "idle" /\ DeferredDelModule
ScheduleUpd == commit.pc = "idle" /\ DeferredUpdModule
ScheduleFeature == commit.pc = "idle" /\ DeferredChangeFeature
Schedule == ScheduleAdd \/ ScheduleDel \/ ScheduleUpd \/ ScheduleFeature

\* sr_lydmods_sched_apply up to the commit
CommitBegin ==
    /\ commit.pc = "idle"
    /\ CanApply
    /\ \E io \in IOs :
          /\ ~Stop(CommitStart(io))
          /\ CommitStart(io).change = 1
          /\ commit' = [commit EXCEPT !.pc = "loop", !.st = Enter(CommitStart(io), "commit"),
                                      !.cur = IF CommitStart(io).tree = <<>> THEN 0 ELSE 1]
    /\ UNCHANGED rest

Key(e) == <<e.k, e.name>>
Keys(tree) == {Key(tree[i]) : i \in 1..Len(tree)}

\* the marker the inner loop of the commit stops at
FirstMarker(e) ==
    LET mk == {k \in 1..Len(e.ch) : IsMarker(e.ch[k].t)}
    IN IF mk = {} THEN "" ELSE e.ch[FirstIdx(mk)].t

\* the entry is freed by the step that handles it
Freed(e) == e.k = "installed-module" \/ FirstMarker(e) \in {"removed", "updated-yang"}

\* the body of the loop for the entry at cur
CommitEntry(st, cur, sorted) ==
    IF st.tree[cur].k = "module" THEN CommitModule(st, cur, sorted)
    ELSE sr_lydmods_sched_finalize_module_install(st, cur, sorted)

\* next of LY_LIST_FOR_SAFE: the entry that followed cur before the body
\* ran, at its place in the list the body left; 0 is the end of the list
NextEntry(before, after, cur) ==
    IF cur < Len(before) /\ FindEntry(after, before[cur + 1].k, before[cur + 1].name) # {}
    THEN FirstIdx(FindEntry(after, before[cur + 1].k, before[cur + 1].name))
    ELSE 0

\* the records the body put into the list
Appended(st, s1, cur) ==
    IF s1.ret # "OK" THEN {}
    ELSE Keys(s1.tree) \ (Keys(st.tree) \ (IF Freed(st.tree[cur]) THEN {Key(st.tree[cur])} ELSE {}))

\* the step for the entry at cur, s1 the state its body leaves
Step(e, s1) ==
    [commit EXCEPT
        !.st = s1,
        !.cur = NextEntry(commit.st.tree, s1.tree, commit.cur),
        !.fresh = (@ \ (IF Freed(e) THEN {Key(e)} ELSE {}))
                  \cup Appended(commit.st, s1, commit.cur),
        !.handled = Append(@, Key(e)),
        !.remarked = @ \/ (Key(e) \in commit.fresh /\ FirstMarker(e) # "")]

CommitStep ==
    /\ commit.pc = "loop"
    /\ commit.cur # 0
    /\ commit.st.ret = "OK"
    /\ \E s1 \in {CommitEntry(commit.st, commit.cur, ly_sorted)} :
          commit' = Step(commit.st.tree[commit.cur], s1)
    /\ UNCHANGED rest

\* the end of the list or an error ends the loop
CommitEnd ==
    /\ commit.pc = "loop"
    /\ commit.cur = 0 \/ commit.st.ret # "OK"
    /\ commit' = [commit EXCEPT !.pc = "done"]
    /\ UNCHANGED rest

\* the frame of the running call
Top == commit.stack[Len(commit.stack)]
Pop(stack) == SubSeq(stack, 1, Len(stack) - 1)
Entered(fn) == commit.pc = fn /\ commit.stack # <<>>

\* sr_lydmods_add_module_with_imps_r up to its loops: an implemented module
\* without a record gets one
AddModule ==
    /\ Entered("add")
    /\ Top.u = 0
    /\ commit' = [commit EXCEPT
           !.recs = IF Top.mod \in commit.impl THEN @ \cup {Top.mod} ELSE @,
           !.stack[Len(commit.stack)].u = 1]
    /\ UNCHANGED rest

\* one round of the loop over the imports: the call for imports[u]
AddImport ==
    /\ Entered("add")
    /\ Top.u \in 1..Len(commit.graph[Top.mod])
    /\ Len(commit.stack) < MaxDepth
    /\ commit' = [commit EXCEPT
           !.stack = Append([@ EXCEPT ![Len(@)].u = Top.u + 1],
                            [mod |-> commit.graph[Top.mod][Top.u], u |-> 0, first |-> 0])]
    /\ UNCHANGED rest

\* the loops are over: the call returns
AddReturn ==
    /\ Entered("add")
    /\ Top.u > Len(commit.graph[Top.mod])
    /\ commit' = [commit EXCEPT !.stack = Pop(@),
                                !.pc = IF Len(commit.stack) = 1 THEN "returned" ELSE @]
    /\ UNCHANGED rest

\* sr_lydmods_unsched_del_module_r up to its loop: the removal marker of the
\* module is dropped; the first module must have one
UnschedMarker ==
    /\ Entered("unsched")
    /\ Top.u = 0
    /\ commit' = IF Top.mod \notin commit.recs /\ Top.first = 1
                 THEN [commit EXCEPT !.err = TRUE, !.stack = Pop(@), !.pc = "returned"]
                 ELSE [commit EXCEPT !.recs = @ \ {Top.mod},
                                     !.stack[Len(commit.stack)].u = 1]
    /\ UNCHANGED rest

\* one round of the loop over the imports: the call for an implemented
\* import, nothing for another one
UnschedImport ==
    /\ Entered("unsched")
    /\ Top.u \in 1..Len(commit.graph[Top.mod])
    /\ Len(commit.stack) < MaxDepth
    /\ commit' = [commit EXCEPT
           !.stack = IF commit.graph[Top.mod][Top.u] \in commit.impl
                     THEN Append([@ EXCEPT ![Len(@)].u = Top.u + 1],
                                 [mod |-> commit.graph[Top.mod][Top.u], u |-> 0, first |-> 0])
                     ELSE [@ EXCEPT ![Len(@)].u = Top.u + 1]]
    /\ UNCHANGED rest

UnschedReturn ==
    /\ Entered("unsched")
    /\ Top.u > Len(commit.graph[Top.mod])
    /\ commit' = [commit EXCEPT !.stack = Pop(@),
                                !.pc = IF Len(commit.stack) = 1 THEN "returned" ELSE @]
    /\ UNCHANGED rest

\* the steps of the running program
CommitRun ==
    \/ CommitStep
    \/ CommitEnd
    \/ AddModule
    \/ AddImport
    \/ AddReturn
    \/ UnschedMarker
    \/ UnschedImport
    \/ UnschedReturn

NextCommit == Schedule \/ CommitBegin \/ CommitRun

\* a call that has started runs on: the program is sequential
SpecCommit == InitCommit /\ [][NextCommit]_vars /\ WF_vars(CommitRun)

\* no key is handled more than twice
HandledTwice(handled) ==
    \A k \in 1..Len(handled) :
        Cardinality({j \in 1..Len(handled) : handled[j] = handled[k]}) <= 2

\* C40: the commit loop ends for every registry, handling a record it
\* appended at most once more and finding no marker on it, with the result
\* of the loop as a whole; the recursive insertion of a module with its
\* imports and the recursive unscheduling of a removal return for every
\* acyclic import graph, never deeper than the number of modules.
C40_CommitTerminates ==
    /\ [](/\ ~commit.remarked
          /\ HandledTwice(commit.handled)
          /\ Len(commit.stack) <= MaxNodes
          /\ commit.pc = "done" =>
                \E io \in IOs : commit.st = Commit(CommitStart(io), ly_sorted))
    /\ (commit.pc = "loop") ~> (commit.pc = "done")
    /\ (commit.pc \in {"add", "unsched"}) ~> (commit.pc = "returned")

C40_Witness ==
    /\ commit.pc = "done"
    /\ commit.st.ret = "OK"
    /\ \E j, k \in 1..Len(commit.handled) : j < k /\ commit.handled[j] = commit.handled[k]
    /\ \E k \in 1..Len(commit.handled) : commit.handled[k][1] = "installed-module"

====
